---- MODULE Spec2Model ----
(***************************************************************************)
(* Model of the DCA backtest engine of src/features/dca/DcaBacktester.tsx  *)
(* (runBacktest): the ledger builder of portfolio-import mode and the      *)
(* per-scheduled-date rule chain of simulation mode.                       *)
(*                                                                         *)
(* Numbers.  The engine computes with JavaScript numbers; the model uses   *)
(* exact rationals <<n, d>> (d > 0, lowest terms), so a quotient such as   *)
(* amount / price or summerSavings / winterDates.length is kept exactly    *)
(* and floating-point rounding is abstracted away.                         *)
(*                                                                         *)
(* Dates.  An ISO date string "YYYY-MM-DD" is the integer YYYYMMDD: the    *)
(* string order used by the code (p.date >= startDate) is the integer      *)
(* order, and substring(0, 7) is the integer division by 100.  The local   *)
(* getters of new Date(pt.date) are taken in a time zone at or east of     *)
(* UTC, where the local calendar day is the day of the string.             *)
(*                                                                         *)
(* Market data.  The run's input is the enriched window `data` built at    *)
(* lines 354-368 (price, sma20/50/100/200, rsiWeekly, vix per day) plus    *)
(* the last days of allPrices that precede startDate (`lookback`), which   *)
(* the simulation never reads.  rsiWeekly is never 0 in `data`: a weekly   *)
(* RSI of exactly 0 needs a series without a single gain, on which the     *)
(* RSI > 70 skip never ran and savedCash is still 0.                       *)
(***************************************************************************)
EXTENDS Integers, Sequences, FiniteSets, TLC

VARIABLES
    cfg,            \* the form state read by runBacktest (rule configuration)
    usePortfolio,   \* portfolio-import toggle
    portfolioTxs,   \* imported brokerage ledger (ApiTransaction[])
    lookback,       \* days of allPrices before startDate (indicator warm-up)
    data,           \* MarketDataPoint[] of the requested window
    pc,             \* position of runBacktest
    idx,            \* position of filteredDates.forEach (1-based)
    txs,            \* the ledger under construction
    totalShares,
    totalInvested,
    budgetDebt,
    savedCash,
    error,          \* useState<string | null>: "" stands for null
    transactions,   \* useState<DcaTransaction[]>
    summary,        \* useState<DcaExtendedSummary | null>: <<>> stands for null
    drawdownData,   \* useState<Array<{date, drawdown}>>
    input,          \* arguments of a call of a function of utils/calculations
    output,         \* what that call returned
    frame,          \* local variables of a call in progress (<<>>: none)
    firstRun,       \* history variable, not program state: the inputs and
                    \* the ledger of the first run that finalised a ledger
                    \* (<<>>: none yet); properties compare later runs with it
    now,            \* backend: Date.now() of the server process (ms)
    lastCoinGeckoRequest,   \* backend: module variable of the rate limiter
    handlers,       \* backend: position and timer of every request handler
    upstream        \* backend: Date.now() at each fetch sent to CoinGecko

vars == <<cfg, usePortfolio, portfolioTxs, lookback, data, pc, idx, txs,
          totalShares, totalInvested, budgetDebt, savedCash,
          error, transactions, summary, drawdownData, input, output, frame,
          firstRun, now, lastCoinGeckoRequest, handlers, upstream>>

inputs == <<cfg, usePortfolio, portfolioTxs, lookback, data>>

\* what the component shows of the last run
display == <<error, transactions, summary, drawdownData>>

\* a call of a utility function outside a run
call == <<input, output, frame>>

\* the state of the backend process
server == <<now, lastCoinGeckoRequest, handlers, upstream>>

-----------------------------------------------------------------------------
(* Bounds of the model *)

MaxDays == 3

MaxImport == 2

\* longest array given to a function of utils/calculations
MaxPrices == 4

\* largest period given to calculateSMA
MaxPeriod == 5

-----------------------------------------------------------------------------
(* Exact rational arithmetic standing for JavaScript number arithmetic *)

Abs(n) == IF n < 0 THEN -n ELSE n

RECURSIVE GCD(_, _)
GCD(a, b) == IF b = 0 THEN a ELSE GCD(b, a % b)

Norm(n, d) ==
    LET s == IF d < 0 THEN -1 ELSE 1
        g == GCD(Abs(n), Abs(d))
    IN  <<(s * n) \div g, (s * d) \div g>>

R(n) == <<n, 1>>

Zero == R(0)

One == R(1)

RAdd(a, b) == Norm(a[1] * b[2] + b[1] * a[2], a[2] * b[2])

RSub(a, b) == Norm(a[1] * b[2] - b[1] * a[2], a[2] * b[2])

RMul(a, b) == Norm(a[1] * b[1], a[2] * b[2])

RDiv(a, b) == Norm(a[1] * b[2], a[2] * b[1])

RLt(a, b) == a[1] * b[2] < b[1] * a[2]

RLe(a, b) == a[1] * b[2] <= b[1] * a[2]

RECURSIVE RSum(_)
RSum(s) == IF s = <<>> THEN Zero ELSE RAdd(RSum(SubSeq(s, 1, Len(s) - 1)), s[Len(s)])

-----------------------------------------------------------------------------
(* Calendar getters of new Date(pt.date) *)

getMonth(date) == ((date \div 100) % 100) - 1

getDate(date) == date % 100

MonthKey(date) == date \div 100

SakamotoT == <<0, 3, 2, 5, 0, 3, 5, 1, 4, 6, 2, 4>>

getDay(date) ==
    LET m == (date \div 100) % 100
        d == date % 100
        y == IF m < 3 THEN (date \div 10000) - 1 ELSE date \div 10000
    IN  (y + (y \div 4) - (y \div 100) + (y \div 400) + SakamotoT[m] + d) % 7

-----------------------------------------------------------------------------
(* Schedule derivation: dcaDates and filteredDates *)

IsDcaDate(pt) ==
    CASE cfg.frequency = "monthly"   -> getDate(pt.date) <= 3
      [] cfg.frequency = "weekly"    -> getDay(pt.date) = 1
      [] cfg.frequency = "daily"     -> TRUE
      [] cfg.frequency = "quarterly" -> getDate(pt.date) <= 3
                                        /\ getMonth(pt.date) \in {0, 3, 6, 9}
      [] OTHER                       -> FALSE

dcaDates == SelectSeq(data, IsDcaDate)

RECURSIVE DedupeByMonth(_, _)
DedupeByMonth(s, seenMonths) ==
    IF s = <<>> THEN <<>>
    ELSE IF MonthKey(Head(s).date) \in seenMonths
         THEN DedupeByMonth(Tail(s), seenMonths)
         ELSE <<Head(s)>> \o
              DedupeByMonth(Tail(s), seenMonths \cup {MonthKey(Head(s).date)})

filteredDates ==
    IF cfg.frequency = "monthly" THEN DedupeByMonth(dcaDates, {}) ELSE dcaDates

-----------------------------------------------------------------------------
(* Pre-computation before the per-date loop *)

isSummerMonth(pt) == getMonth(pt.date) >= 4 /\ getMonth(pt.date) <= 7

IsWinterDate(pt) == getMonth(pt.date) >= 8 \/ getMonth(pt.date) <= 3

summerDates == SelectSeq(filteredDates, isSummerMonth)

winterDates == SelectSeq(filteredDates, IsWinterDate)

summerSavings == RMul(R(Len(summerDates)), cfg.baseAmount)

sellInMayBonus ==
    IF Len(winterDates) > 0 THEN RDiv(summerSavings, R(Len(winterDates))) ELSE Zero

\* data.findIndex(d => d.date === date), 1-based
findIndex(date) == CHOOSE i \in 1..Len(data) : data[i].date = date

\* wasAboveSmaNMap.get(pt.date) ?? true : the entry of a day is written from
\* the previous day of data when that day's SMA is truthy
prevWasAboveSma20(pt) ==
    LET i == findIndex(pt.date)
    IN  IF i > 1 /\ data[i - 1].sma20 # 0
        THEN data[i - 1].price >= data[i - 1].sma20 ELSE TRUE

prevWasAboveSma50(pt) ==
    LET i == findIndex(pt.date)
    IN  IF i > 1 /\ data[i - 1].sma50 # 0
        THEN data[i - 1].price >= data[i - 1].sma50 ELSE TRUE

prevWasAboveSma100(pt) ==
    LET i == findIndex(pt.date)
    IN  IF i > 1 /\ data[i - 1].sma100 # 0
        THEN data[i - 1].price >= data[i - 1].sma100 ELSE TRUE

prevWasAboveSma200(pt) ==
    LET i == findIndex(pt.date)
    IN  IF i > 1 /\ data[i - 1].sma200 # 0
        THEN data[i - 1].price >= data[i - 1].sma200 ELSE TRUE

\* the inner loop  for (j = lastDcaIndex; j <= dcaDateIndex && j < data.length; j++)
\* (an absent vix and a vix of 0 are both falsy and leave maxVix alone)
RECURSIVE MaxVixLoop(_, _, _)
MaxVixLoop(j, dcaDateIndex, maxVix) ==
    IF j <= dcaDateIndex /\ j <= Len(data)
    THEN MaxVixLoop(j + 1, dcaDateIndex,
                    IF data[j].vix # 0 /\ data[j].vix > maxVix
                    THEN data[j].vix ELSE maxVix)
    ELSE maxVix

\* mutant: the scan restarts on the previous scheduled date itself
lastDcaIndex_Inclusive(i) ==
    IF i = 1 THEN 1 ELSE findIndex(filteredDates[i - 1].date)

\* lastDcaIndex when the i-th scheduled date is reached (1-based)
lastDcaIndex(i) ==
    IF i = 1 THEN 1 ELSE findIndex(filteredDates[i - 1].date) + 1

\* maxVixSincePrevDcaMap.get(filteredDates[i].date)
maxVixSincePrevDcaMap(i) ==
    MaxVixLoop(lastDcaIndex(i), findIndex(filteredDates[i].date), 0)

-----------------------------------------------------------------------------
(* The callback of filteredDates.forEach: locals of the current date *)

pt == filteredDates[idx]

\* budgetDebt >= baseAmount : this date's base contribution is waived
DebtWaived == RLe(cfg.baseAmount, budgetDebt)

\* mutant: a waiver clears the whole debt instead of one base amount
debtAfterWaiver_Cleared == IF DebtWaived THEN Zero ELSE budgetDebt

debtAfterWaiver ==
    IF DebtWaived THEN RSub(budgetDebt, cfg.baseAmount) ELSE budgetDebt

\* mutant of effectiveBaseAmount: the debt is deducted but the base amount is
\* invested all the same
effectiveBaseAmount_NeverWaived == cfg.baseAmount

effectiveBaseAmount == IF DebtWaived THEN Zero ELSE cfg.baseAmount

BonusApplies ==
    cfg.useSellInMay /\ ~isSummerMonth(pt) /\ RLt(Zero, sellInMayBonus)

amountAfterBonus ==
    IF BonusApplies THEN RAdd(effectiveBaseAmount, sellInMayBonus)
    ELSE effectiveBaseAmount

reasonsAfterBonus ==
    (IF DebtWaived THEN <<"debt">> ELSE <<>>) \o
    (IF BonusApplies THEN <<"bonus">> ELSE <<>>)

\* if (useRsiRule && pt.rsiWeekly)
RsiActive == cfg.useRsiRule /\ pt.rsiWeekly # 0

RsiSkips == RsiActive /\ pt.rsiWeekly > 70

\* mutant: saved cash is deployed below the neutral level already
RsiDeploys_BelowNeutral ==
    RsiActive /\ ~(pt.rsiWeekly > 70) /\ pt.rsiWeekly < 60 /\ RLt(Zero, savedCash)

RsiDeploys ==
    RsiActive /\ ~(pt.rsiWeekly > 70) /\ pt.rsiWeekly < 30 /\ RLt(Zero, savedCash)

amountAfterRsi ==
    IF RsiDeploys THEN RAdd(amountAfterBonus, savedCash) ELSE amountAfterBonus

currentBelowSma20 == pt.sma20 # 0 /\ pt.price < pt.sma20

currentBelowSma50 == pt.sma50 # 0 /\ pt.price < pt.sma50

currentBelowSma100 == pt.sma100 # 0 /\ pt.price < pt.sma100

currentBelowSma200 == pt.sma200 # 0 /\ pt.price < pt.sma200

Sma20Fires == cfg.useSma20Rule /\ currentBelowSma20 /\ prevWasAboveSma20(pt)

Sma50Fires == cfg.useSma50Rule /\ currentBelowSma50 /\ prevWasAboveSma50(pt)

Sma100Fires == cfg.useSmaRule /\ currentBelowSma100 /\ prevWasAboveSma100(pt)

Sma200Fires == cfg.useSma200Rule /\ currentBelowSma200 /\ prevWasAboveSma200(pt)

\* maxVixSincePrevDcaMap.get(pt.date) || pt.vix || 0
maxVixSincePrev ==
    IF maxVixSincePrevDcaMap(idx) # 0 THEN maxVixSincePrevDcaMap(idx)
    ELSE IF pt.vix # 0 THEN pt.vix ELSE 0

VixFires == cfg.useVixRule /\ maxVixSincePrev > cfg.vixThreshold

\* mutant: the rule multipliers are multiplied instead of added
multiplier_Product ==
    LET m20  == IF Sma20Fires THEN cfg.sma20Multiplier ELSE One
        m50  == IF Sma50Fires THEN RMul(m20, cfg.sma50Multiplier) ELSE m20
        m100 == IF Sma100Fires THEN RMul(m50, cfg.sma100Multiplier) ELSE m50
        m200 == IF Sma200Fires THEN RMul(m100, cfg.sma200Multiplier) ELSE m100
    IN  IF VixFires THEN RMul(m200, cfg.vixMultiplier) ELSE m200

\* multiplier += (m - 1) for every rule that fires
multiplier ==
    LET m20  == IF Sma20Fires THEN RAdd(One, RSub(cfg.sma20Multiplier, One)) ELSE One
        m50  == IF Sma50Fires THEN RAdd(m20, RSub(cfg.sma50Multiplier, One)) ELSE m20
        m100 == IF Sma100Fires THEN RAdd(m50, RSub(cfg.sma100Multiplier, One)) ELSE m50
        m200 == IF Sma200Fires THEN RAdd(m100, RSub(cfg.sma200Multiplier, One)) ELSE m100
    IN  IF VixFires THEN RAdd(m200, RSub(cfg.vixMultiplier, One)) ELSE m200

reasons ==
    reasonsAfterBonus \o
    (IF RsiDeploys THEN <<"rsiDeploy">> ELSE <<>>) \o
    (IF Sma20Fires THEN <<"sma20">> ELSE <<>>) \o
    (IF Sma50Fires THEN <<"sma50">> ELSE <<>>) \o
    (IF Sma100Fires THEN <<"sma100">> ELSE <<>>) \o
    (IF Sma200Fires THEN <<"sma200">> ELSE <<>>) \o
    (IF VixFires THEN <<"vix">> ELSE <<>>)

finalAmount == RMul(amountAfterRsi, multiplier)

extraSpent == RSub(finalAmount, cfg.baseAmount)

\* one DcaTransaction; `reason` is the list of rule tags that reasons.join(', ')
\* prints (the amounts printed inside a tag are left out)
Tx(p, investedAmount, sharesBought, accumulatedShares, multiplierApplied, reason) ==
    [date |-> p.date, price |-> R(p.price),
     investedAmount |-> investedAmount, sharesBought |-> sharesBought,
     accumulatedShares |-> accumulatedShares,
     portfolioValue |-> RMul(accumulatedShares, R(p.price)),
     multiplierApplied |-> multiplierApplied, reason |-> reason]

InLoop == pc = "loop" /\ idx <= Len(filteredDates)

\* if (useSellInMay && isSummerMonth)
SummerSkips == cfg.useSellInMay /\ isSummerMonth(pt)

\* if (amount <= 0)
NothingToInvest == RLe(amountAfterBonus, Zero)

\* mutant: the RSI > 70 branch does not return
ReachesPurchase_PastRsiSkip ==
    ~cfg.useDcaStrict /\ ~SummerSkips /\ ~NothingToInvest

\* the date falls through every early return
ReachesPurchase ==
    ~cfg.useDcaStrict /\ ~SummerSkips /\ ~NothingToInvest /\ ~RsiSkips

\* if (useDcaStrict) { ... return; }
StrictBuy ==
    /\ InLoop
    /\ cfg.useDcaStrict
    /\ LET sharesBought == RDiv(cfg.baseAmount, R(pt.price))
       IN  /\ totalShares' = RAdd(totalShares, sharesBought)
           /\ totalInvested' = RAdd(totalInvested, cfg.baseAmount)
           /\ txs' = Append(txs, Tx(pt, cfg.baseAmount, sharesBought,
                                    RAdd(totalShares, sharesBought), One, <<>>))
    /\ idx' = idx + 1
    /\ UNCHANGED <<inputs, pc, budgetDebt, savedCash>>
    /\ UNCHANGED <<display, call, firstRun, server>>

\* mutant: the summer date is skipped without a ledger entry
SellInMaySkip_Dropped ==
    /\ InLoop
    /\ ~cfg.useDcaStrict
    /\ SummerSkips
    /\ idx' = idx + 1
    /\ UNCHANGED <<inputs, pc, txs, totalShares, totalInvested, budgetDebt, savedCash>>
    /\ UNCHANGED <<display, call, firstRun, server>>

\* mutant: the Sell-in-May test is made before the strict-mode test
SellInMaySkip_BeforeStrict ==
    /\ InLoop
    /\ SummerSkips
    /\ txs' = Append(txs, Tx(pt, Zero, Zero, totalShares, Zero, <<"sellInMay">>))
    /\ idx' = idx + 1
    /\ UNCHANGED <<inputs, pc, totalShares, totalInvested, budgetDebt, savedCash>>
    /\ UNCHANGED <<display, call, firstRun, server>>

\* if (useSellInMay && isSummerMonth) { ... return; }
SellInMaySkip ==
    /\ InLoop
    /\ ~cfg.useDcaStrict
    /\ SummerSkips
    /\ txs' = Append(txs, Tx(pt, Zero, Zero, totalShares, Zero, <<"sellInMay">>))
    /\ idx' = idx + 1
    /\ UNCHANGED <<inputs, pc, totalShares, totalInvested, budgetDebt, savedCash>>
    /\ UNCHANGED <<display, call, firstRun, server>>

\* if (amount <= 0) { ... return; }   (after the debt waiver and the bonus)
ZeroAmountSkip ==
    /\ InLoop
    /\ ~cfg.useDcaStrict
    /\ ~SummerSkips
    /\ NothingToInvest
    /\ budgetDebt' = debtAfterWaiver
    /\ txs' = Append(txs, Tx(pt, Zero, Zero, totalShares, Zero, reasonsAfterBonus))
    /\ idx' = idx + 1
    /\ UNCHANGED <<inputs, pc, totalShares, totalInvested, savedCash>>
    /\ UNCHANGED <<display, call, firstRun, server>>

\* if (pt.rsiWeekly > 70) { savedCash += baseAmount; ... return; }
RsiSkip ==
    /\ InLoop
    /\ ~cfg.useDcaStrict
    /\ ~SummerSkips
    /\ ~NothingToInvest
    /\ RsiSkips
    /\ budgetDebt' = debtAfterWaiver
    /\ savedCash' = RAdd(savedCash, cfg.baseAmount)
    /\ txs' = Append(txs, Tx(pt, Zero, Zero, totalShares, Zero, <<"rsiSkip">>))
    /\ idx' = idx + 1
    /\ UNCHANGED <<inputs, pc, totalShares, totalInvested>>
    /\ UNCHANGED <<display, call, firstRun, server>>

\* the purchase at the end of the callback
Purchase ==
    /\ InLoop
    /\ ReachesPurchase
    /\ LET sharesBought == RDiv(finalAmount, R(pt.price))
       IN  /\ totalShares' = RAdd(totalShares, sharesBought)
           /\ totalInvested' = RAdd(totalInvested, finalAmount)
           /\ txs' = Append(txs, Tx(pt, finalAmount, sharesBought,
                                    RAdd(totalShares, sharesBought),
                                    multiplier, reasons))
    /\ budgetDebt' = IF RLt(Zero, extraSpent)
                     THEN RAdd(debtAfterWaiver, extraSpent) ELSE debtAfterWaiver
    /\ savedCash' = IF RsiDeploys THEN Zero ELSE savedCash
    /\ idx' = idx + 1
    /\ UNCHANGED <<inputs, pc>>
    /\ UNCHANGED <<display, call, firstRun, server>>

-----------------------------------------------------------------------------
(* Metrics of utils/calculations used by the summary.  A number is a rational
   <<n, d>> with d > 0, or one of the three values a division by zero gives:
   NaN (0/0), Infinity and -Infinity.  Square roots, powers and the XIRR
   iteration are kept as terms over their exact arguments. *)

NaN == <<0, 0>>

PosInfinity == <<1, 0>>

NegInfinity == <<-1, 0>>

isFinite(x) == x[2] # 0

\* a / b for finite operands
JsDiv(a, b) ==
    IF b[1] # 0 THEN RDiv(a, b)
    ELSE IF a[1] = 0 THEN NaN
    ELSE IF a[1] > 0 THEN PosInfinity ELSE NegInfinity

\* x * k for a finite k > 0
JsTimes(x, k) == IF isFinite(x) THEN RMul(x, k) ELSE x

\* a > b
JsGt(a, b) ==
    IF a = NaN \/ b = NaN THEN FALSE
    ELSE IF a = PosInfinity THEN b # PosInfinity
    ELSE IF a = NegInfinity THEN FALSE
    ELSE IF b = PosInfinity THEN FALSE
    ELSE IF b = NegInfinity THEN TRUE
    ELSE RLt(b, a)

\* new Date(date).getTime() in days
DayNumber(date) ==
    LET y == date \div 10000
        m == (date \div 100) % 100
        d == date % 100
        a == (14 - m) \div 12
        y2 == y + 4800 - a
        m2 == m + 12 * a - 3
    IN  d + ((153 * m2 + 2) \div 5) + 365 * y2 + (y2 \div 4) - (y2 \div 100)
          + (y2 \div 400) - 32045

\* mutant of calculateCAGR: the end-value guard is tested first
calculateCAGR_EndGuardFirst(startValue, endValue, years) ==
    IF RLe(endValue, Zero)
    THEN [value |-> "-100", base |-> One, exponent |-> One]
    ELSE IF RLe(startValue, Zero) \/ RLe(years, Zero)
    THEN [value |-> "0", base |-> One, exponent |-> One]
    ELSE [value |-> "pow", base |-> JsDiv(endValue, startValue),
          exponent |-> JsDiv(One, years)]

\* (Math.pow(endValue / startValue, 1 / years) - 1) * 100 behind its guards
calculateCAGR(startValue, endValue, years) ==
    IF RLe(startValue, Zero) \/ RLe(years, Zero)
    THEN [value |-> "0", base |-> One, exponent |-> One]
    ELSE IF RLe(endValue, Zero)
    THEN [value |-> "-100", base |-> One, exponent |-> One]
    ELSE [value |-> "pow", base |-> JsDiv(endValue, startValue),
          exponent |-> JsDiv(One, years)]

RECURSIVE calculateDailyReturns(_)
calculateDailyReturns(prices) ==
    IF Len(prices) < 2 THEN <<>>
    ELSE LET n == Len(prices)
             rest == calculateDailyReturns(SubSeq(prices, 1, n - 1))
         IN  IF prices[n - 1] # Zero
             THEN Append(rest, RDiv(RSub(prices[n], prices[n - 1]), prices[n - 1]))
             ELSE rest

\* returns.reduce((sum, r) => sum + (r - mean)^2, 0) / (returns.length - 1)
\* by the class of its value.  The sum of the squared deviations is 0 exactly
\* when all the returns are equal (each is then the mean), so the quotient
\* is 0/0 = NaN for a single return, 0 for n > 1 equal returns and positive
\* otherwise.
SampleVariance(returns) ==
    LET sumIsZero == \A i \in 1..Len(returns), j \in 1..Len(returns) :
                         returns[i] = returns[j]
    IN  IF Len(returns) - 1 = 0 THEN (IF sumIsZero THEN "NaN" ELSE "Infinity")
        ELSE IF sumIsZero THEN "0" ELSE "positive"

\* the result is Math.sqrt(variance) * Math.sqrt(252) * 100, a term over the
\* returns
calculateVolatility(prices) ==
    LET returns == calculateDailyReturns(prices)
    IN  IF Len(returns) < 2 THEN [variance |-> "0", returns |-> <<>>]
        ELSE [variance |-> SampleVariance(returns), returns |-> returns]

\* the result is (dailyMeanReturn * 252 - riskFreeRate / 100) /
\* (Math.sqrt(variance) * Math.sqrt(252)), a term over the returns; it is 0
\* behind a guard and NaN when the variance is NaN
calculateSharpeFromPrices(prices, riskFreeRate) ==
    LET none == [value |-> "0", returns |-> <<>>]
    IN  IF Len(prices) < 2 THEN none
        ELSE LET returns == calculateDailyReturns(prices)
             IN  IF Len(returns) = 0 THEN none
                 ELSE IF SampleVariance(returns) = "0" THEN none
                 ELSE IF SampleVariance(returns) = "NaN"
                 THEN [value |-> "NaN", returns |-> returns]
                 ELSE [value |-> "ratio", returns |-> returns]

\* the forward pass of calculateMaxDrawdown from point i on
RECURSIVE DrawdownPass(_, _, _)
DrawdownPass(pv, i, st) ==
    IF i > Len(pv) THEN st
    ELSE LET rise == RLt(st.peak, pv[i].value)
             peak == IF rise THEN pv[i].value ELSE st.peak
             peakDate == IF rise THEN pv[i].date ELSE st.peakDate
             drawdown == JsDiv(RSub(peak, pv[i].value), peak)
             deeper == JsGt(drawdown, st.maxDrawdown)
         IN  DrawdownPass(pv, i + 1,
                [peak |-> peak, peakDate |-> peakDate,
                 maxDrawdown |-> IF deeper THEN drawdown ELSE st.maxDrawdown,
                 maxDrawdownPeakDate |->
                     IF deeper THEN peakDate ELSE st.maxDrawdownPeakDate,
                 maxDrawdownTroughDate |->
                     IF deeper THEN pv[i].date ELSE st.maxDrawdownTroughDate,
                 drawdownSeries |->
                     Append(st.drawdownSeries,
                            [date |-> pv[i].date,
                             drawdown |-> JsTimes(drawdown, R(100))])])

\* dates are 0 where the code returns ''
calculateMaxDrawdown(pv) ==
    IF Len(pv) = 0
    THEN [maxDrawdown |-> Zero, maxDrawdownPeakDate |-> 0,
          maxDrawdownTroughDate |-> 0, currentDrawdown |-> Zero,
          drawdownSeries |-> <<>>]
    ELSE LET st == DrawdownPass(pv, 1,
                     [peak |-> pv[1].value, peakDate |-> pv[1].date,
                      maxDrawdown |-> Zero,
                      maxDrawdownPeakDate |-> pv[1].date,
                      maxDrawdownTroughDate |-> pv[1].date,
                      drawdownSeries |-> <<>>])
             lastValue == pv[Len(pv)].value
         IN  [maxDrawdown |-> JsTimes(st.maxDrawdown, R(100)),
              maxDrawdownPeakDate |-> st.maxDrawdownPeakDate,
              maxDrawdownTroughDate |-> st.maxDrawdownTroughDate,
              currentDrawdown |->
                  JsTimes(JsDiv(RSub(st.peak, lastValue), st.peak), R(100)),
              drawdownSeries |-> st.drawdownSeries]

calculateAveragePurchasePrice(ledger) ==
    IF Len(ledger) = 0 THEN Zero
    ELSE IF ledger[Len(ledger)].accumulatedShares = Zero THEN Zero
    ELSE JsDiv(RSum([i \in 1..Len(ledger) |-> ledger[i].investedAmount]),
               ledger[Len(ledger)].accumulatedShares)

\* the loop of calculateBestWorstMonths from transaction i on, and the push
\* of the last month after it
RECURSIVE MonthlyReturns(_, _, _, _)
MonthlyReturns(ledger, i, prevMonthValue, currentMonth) ==
    IF i > Len(ledger)
    THEN <<[month |-> currentMonth,
            return |-> JsTimes(JsDiv(RSub(ledger[Len(ledger)].portfolioValue,
                                          prevMonthValue),
                                     prevMonthValue), R(100))]>>
    ELSE IF MonthKey(ledger[i].date) # currentMonth
    THEN <<[month |-> currentMonth,
            return |-> JsTimes(JsDiv(RSub(ledger[i - 1].portfolioValue,
                                          prevMonthValue),
                                     prevMonthValue), R(100))]>>
         \o MonthlyReturns(ledger, i + 1, ledger[i - 1].portfolioValue,
                           MonthKey(ledger[i].date))
    ELSE MonthlyReturns(ledger, i + 1, prevMonthValue, currentMonth)

\* the set of results calculateBestWorstMonths can give.  With finite returns
\* the (stable) sort by descending return is determined; a comparator that
\* meets NaN or Infinity - Infinity is inconsistent and the order of the
\* sorted array is then implementation-defined.  Months are 0 where the code
\* returns ''.
calculateBestWorstMonths(ledger) ==
    IF Len(ledger) < 2
    THEN { [best |-> [date |-> 0, return |-> Zero],
            worst |-> [date |-> 0, return |-> Zero]] }
    ELSE LET mr == MonthlyReturns(ledger, 2, ledger[1].portfolioValue,
                                  MonthKey(ledger[1].date))
             n == Len(mr)
             entry(k) == [date |-> mr[k].month, return |-> mr[k].return]
         IN  IF \A k \in 1..n : isFinite(mr[k].return)
             THEN LET b == CHOOSE k \in 1..n :
                             /\ \A j \in 1..n : RLe(mr[j].return, mr[k].return)
                             /\ \A j \in 1..(k - 1) : mr[j].return # mr[k].return
                      w == CHOOSE k \in 1..n :
                             /\ \A j \in 1..n : RLe(mr[k].return, mr[j].return)
                             /\ \A j \in (k + 1)..n : mr[j].return # mr[k].return
                  IN  { [best |-> entry(b), worst |-> entry(w)] }
             ELSE { [best |-> entry(b), worst |-> entry(w)] :
                      <<b, w>> \in { bw \in (1..n) \X (1..n) :
                                       n > 1 => bw[1] # bw[2] } }

\* one cash flow per transaction and the final value on the last date
buildCashFlowsFromTransactions(ledger, finalValue) ==
    [i \in 1..Len(ledger) |->
        [date |-> ledger[i].date, amount |-> RSub(Zero, ledger[i].investedAmount)]]
    \o (IF Len(ledger) > 0
        THEN <<[date |-> ledger[Len(ledger)].date, amount |-> finalValue]>>
        ELSE <<>>)

\* the Newton-Raphson iteration is kept as a term over the cash flows
calculateXIRR(cashFlows) ==
    IF Len(cashFlows) < 2 THEN [value |-> "0", cashFlows |-> <<>>]
    ELSE [value |-> "newton", cashFlows |-> cashFlows]

portfolioValues(ledger) ==
    [i \in 1..Len(ledger) |->
        [date |-> ledger[i].date, value |-> ledger[i].portfolioValue]]

\* the object given to setSummary, for a non-empty ledger txs
buildSummary(bestWorst) ==
    LET lastTx == txs[Len(txs)]
        invested == RSum([i \in 1..Len(txs) |-> txs[i].investedAmount])
        currentValue == lastTx.portfolioValue
        profit == RSub(currentValue, invested)
        years == Norm((DayNumber(lastTx.date) - DayNumber(txs[1].date)) * 4, 1461)
        ddResult == calculateMaxDrawdown(portfolioValues(txs))
        valueArray == [i \in 1..Len(txs) |-> txs[i].portfolioValue]
    IN  [totalInvested |-> invested,
         currentValue |-> currentValue,
         profitPercent |-> JsTimes(JsDiv(profit, invested), R(100)),
         cagr |-> calculateCAGR(invested, currentValue, years),
         shares |-> lastTx.accumulatedShares,
         xirr |-> calculateXIRR(buildCashFlowsFromTransactions(txs, currentValue)),
         sharpeRatio |-> calculateSharpeFromPrices(valueArray, 2),
         maxDrawdown |-> ddResult.maxDrawdown,
         maxDrawdownPeakDate |-> ddResult.maxDrawdownPeakDate,
         maxDrawdownTroughDate |-> ddResult.maxDrawdownTroughDate,
         volatility |-> calculateVolatility(valueArray),
         avgBuyPrice |-> calculateAveragePurchasePrice(txs),
         bestMonth |-> bestWorst.best,
         worstMonth |-> bestWorst.worst,
         dataSource |-> "yahoo"]

-----------------------------------------------------------------------------
(* runBacktest around the loop *)

UsesImport == usePortfolio /\ Len(portfolioTxs) > 0

\* allPrices.length === 0
NoPriceData == lookback = <<>> /\ data = <<>>

\* throw new Error(`Aucune donnee trouvee pour ${ticker}`), caught by
\* the history variable once a run has finalised `ledger`
Remembered(ledger) ==
    IF firstRun = <<>> THEN <<inputs, ledger>> ELSE firstRun

\* catch (err) { setError(err.message) }
ThrowNoData ==
    /\ pc = "start"
    /\ NoPriceData
    /\ pc' = "error"
    /\ error' = "Aucune donnee trouvee"
    /\ UNCHANGED <<inputs, idx, txs, totalShares, totalInvested, budgetDebt, savedCash>>
    /\ UNCHANGED <<transactions, summary, drawdownData, call, firstRun, server>>

\* data.find(d => d.date === date) || data[data.length - 1], then
\* pricePoint?.price || ptx.price
importPrice(ptx) ==
    IF \E i \in 1..Len(data) : data[i].date = ptx.date
    THEN R(data[findIndex(ptx.date)].price)
    ELSE IF Len(data) > 0 THEN R(data[Len(data)].price) ELSE R(ptx.price)

\* txs = portfolioTxs.map(ptx => { totalShares += ptx.quantity; ... })
importedTx(i) ==
    LET ptx == portfolioTxs[i]
        acc == RSum([j \in 1..i |-> R(portfolioTxs[j].quantity)])
    IN  [date |-> ptx.date, price |-> R(ptx.price),
         investedAmount |-> R(ptx.invested_amount),
         sharesBought |-> R(ptx.quantity),
         accumulatedShares |-> acc,
         portfolioValue |-> RMul(acc, importPrice(ptx)),
         multiplierApplied |-> One, reason |-> <<"Portfolio import">>]

ImportPortfolio ==
    /\ pc = "start"
    /\ ~NoPriceData
    /\ UsesImport
    /\ txs' = [i \in 1..Len(portfolioTxs) |-> importedTx(i)]
    /\ pc' = "built"
    /\ firstRun' = Remembered(txs')
    /\ UNCHANGED server
    /\ UNCHANGED <<inputs, idx, totalShares, totalInvested, budgetDebt, savedCash>>
    /\ UNCHANGED <<display, call>>

\* mutant of BeginSimulation: budgetDebt and savedCash are counters of the
\* component, declared outside runBacktest, and outlive the run
BeginSimulation_SharedCounters ==
    /\ pc = "start"
    /\ ~NoPriceData
    /\ ~UsesImport
    /\ txs' = <<>>
    /\ totalShares' = Zero /\ totalInvested' = Zero
    /\ idx' = 1
    /\ pc' = "loop"
    /\ UNCHANGED <<inputs, budgetDebt, savedCash>>
    /\ UNCHANGED <<display, call, firstRun, server>>

\* txs = []; totalShares = 0; totalInvested = 0; budgetDebt = 0; savedCash = 0
BeginSimulation ==
    /\ pc = "start"
    /\ ~NoPriceData
    /\ ~UsesImport
    /\ txs' = <<>>
    /\ totalShares' = Zero /\ totalInvested' = Zero
    /\ budgetDebt' = Zero /\ savedCash' = Zero
    /\ idx' = 1
    /\ pc' = "loop"
    /\ UNCHANGED inputs
    /\ UNCHANGED <<display, call, firstRun, server>>

EndSimulation ==
    /\ pc = "loop" /\ idx > Len(filteredDates)
    /\ pc' = "built"
    /\ firstRun' = Remembered(txs)
    /\ UNCHANGED server
    /\ UNCHANGED <<inputs, idx, txs, totalShares, totalInvested, budgetDebt, savedCash>>
    /\ UNCHANGED <<display, call>>

\* mutant: an empty ledger ends the run silently, as an empty result
ThrowNoTransaction_Silent ==
    /\ pc = "built" /\ Len(txs) = 0
    /\ pc' = "done"
    /\ transactions' = txs
    /\ UNCHANGED <<inputs, idx, txs, totalShares, totalInvested, budgetDebt, savedCash>>
    /\ UNCHANGED <<error, summary, drawdownData, call, firstRun, server>>

\* if (txs.length === 0) throw new Error('Aucune transaction generee'), caught
\* by catch (err) { setError(err.message) }
ThrowNoTransaction ==
    /\ pc = "built" /\ Len(txs) = 0
    /\ pc' = "error"
    /\ error' = "Aucune transaction generee"
    /\ UNCHANGED <<inputs, idx, txs, totalShares, totalInvested, budgetDebt, savedCash>>
    /\ UNCHANGED <<transactions, summary, drawdownData, call, firstRun, server>>

\* setTransactions(txs); setDrawdownData(ddResult.drawdownSeries);
\* setSummary({...})
Summarise ==
    /\ pc = "built" /\ Len(txs) > 0
    /\ pc' = "done"
    /\ transactions' = txs
    /\ drawdownData' = calculateMaxDrawdown(portfolioValues(txs)).drawdownSeries
    /\ \E bw \in calculateBestWorstMonths(txs) : summary' = <<buildSummary(bw)>>
    /\ UNCHANGED <<inputs, idx, txs, totalShares, totalInvested, budgetDebt, savedCash>>
    /\ UNCHANGED <<error, call, firstRun, server>>

-----------------------------------------------------------------------------
(* The backend: GET /api/crypto/:coinId and its CoinGecko rate limiter *)

COINGECKO_DELAY == 1500

\* concurrent requests for different coins, none of them in the cache
MaxRequests == 3

Requests == 1..MaxRequests

\* the clock stops here
MaxClock == 6000

\* how far Date.now() moves between two steps of the event loop
Elapses == {100, 700, 1500}

\* the server was started long after the epoch and no request has come yet
InitServer ==
    /\ now = 2 * COINGECKO_DELAY
    /\ lastCoinGeckoRequest = 0
    /\ handlers = [r \in Requests |-> [at |-> "idle", due |-> 0]]
    /\ upstream = <<>>

client == <<inputs, pc, idx, txs, totalShares, totalInvested, budgetDebt,
            savedCash, display, call, firstRun>>

\* the request arrives with its "from" parameter and
\* await getFromCache(cacheKey) resumes with no cached value
CacheMiss(r) ==
    /\ handlers[r].at = "idle"
    /\ handlers' = [handlers EXCEPT ![r].at = "limiter"]
    /\ UNCHANGED <<now, lastCoinGeckoRequest, upstream, client>>

\* lastCoinGeckoRequest = Date.now(); ... fetch(url): one synchronous stretch
\* up to  await fetch(url)
SendUpstream(r) ==
    /\ lastCoinGeckoRequest' = now
    /\ upstream' = Append(upstream, now)
    /\ handlers' = [handlers EXCEPT ![r].at = "fetching"]

\* const wait = COINGECKO_DELAY - (Date.now() - lastCoinGeckoRequest);
\* if (wait > 0) await new Promise(r => setTimeout(r, wait));
RateLimit(r) ==
    /\ handlers[r].at = "limiter"
    /\ LET wait == COINGECKO_DELAY - (now - lastCoinGeckoRequest)
       IN  IF wait > 0
           THEN /\ handlers' = [handlers EXCEPT ![r] = [at |-> "waiting",
                                                        due |-> now + wait]]
                /\ UNCHANGED <<lastCoinGeckoRequest, upstream>>
           ELSE SendUpstream(r)
    /\ UNCHANGED <<now, client>>

\* the timer of setTimeout(r, wait) has expired and the handler resumes
TimerFires(r) ==
    /\ handlers[r].at = "waiting"
    /\ now >= handlers[r].due
    /\ SendUpstream(r)
    /\ UNCHANGED <<now, client>>

\* CoinGecko has answered: setCache and res.json, or res.status(500)
Respond(r) ==
    /\ handlers[r].at = "fetching"
    /\ handlers' = [handlers EXCEPT ![r].at = "answered"]
    /\ UNCHANGED <<now, lastCoinGeckoRequest, upstream, client>>

\* time passes between two turns of the event loop
TimePasses ==
    /\ \E ms \in Elapses :
          /\ now + ms <= MaxClock
          /\ now' = now + ms
    /\ UNCHANGED <<lastCoinGeckoRequest, handlers, upstream, client>>

-----------------------------------------------------------------------------
(* Inputs of a run *)

\* candidate trading days: 2023-04-03 Mon, 05-01 Mon, 05-02 Tue, 07-03 Mon,
\* 09-01 Fri, 10-02 Mon
Calendar == <<20230403, 20230501, 20230502, 20230703, 20230901, 20231002>>

\* market conditions of one day:
\*   calm   price above every average, neutral RSI, VIX under the threshold
\*   slump  price under every average, RSI < 30, no VIX value
\*   spike  RSI > 70 with the price under its 20-period average, VIX over
\*          the threshold
DayKinds ==
    { [price |-> 10, sma20 |-> 8,  sma50 |-> 8, sma100 |-> 8, sma200 |-> 8,
       rsiWeekly |-> 50, vix |-> 20],
      [price |-> 4,  sma20 |-> 8,  sma50 |-> 8, sma100 |-> 8, sma200 |-> 8,
       rsiWeekly |-> 20, vix |-> 0],
      [price |-> 20, sma20 |-> 25, sma50 |-> 8, sma100 |-> 8, sma200 |-> 8,
       rsiWeekly |-> 80, vix |-> 50] }

Day(date, k) ==
    [date |-> date, price |-> k.price, sma20 |-> k.sma20, sma50 |-> k.sma50,
     sma100 |-> k.sma100, sma200 |-> k.sma200, rsiWeekly |-> k.rsiWeekly,
     vix |-> k.vix]

\* allPrices[0]: every moving average of the first fetched day is its price
\* (calculateSMA at index 0; lastSmaN = allPriceValues[0] for the fill-forward)
FirstFetched(s) ==
    [i \in 1..Len(s) |->
        IF i = 1
        THEN [s[1] EXCEPT !.sma20 = s[1].price, !.sma50 = s[1].price,
                          !.sma100 = s[1].price, !.sma200 = s[1].price]
        ELSE s[i]]

\* the daily series over Calendar[a .. a + n - 1]
Segments ==
    UNION { { [i \in 1..n |-> Day(Calendar[a + i - 1], ks[i])] :
                ks \in [1..n -> DayKinds] } :
            <<a, n>> \in { an \in (1..Len(Calendar)) \X (1..MaxDays) :
                             an[1] + an[2] - 1 <= Len(Calendar) } }

SmaRuleSets == { {}, {20}, {50, 100}, {20, 50, 100, 200} }

Config(freq, strict, sim, rsi, vix, smas) ==
    [frequency |-> freq, baseAmount |-> R(100),
     useDcaStrict |-> strict, useSellInMay |-> sim, useRsiRule |-> rsi,
     useVixRule |-> vix,
     useSma20Rule |-> 20 \in smas, useSma50Rule |-> 50 \in smas,
     useSmaRule |-> 100 \in smas, useSma200Rule |-> 200 \in smas,
     sma20Multiplier |-> R(2), sma50Multiplier |-> <<3, 2>>,
     sma100Multiplier |-> R(2), sma200Multiplier |-> R(2),
     vixMultiplier |-> R(3), vixThreshold |-> 40]

Configs ==
    { Config(f, st, sm, rs, vx, ss) :
        f \in {"daily", "weekly", "monthly", "quarterly"},
        st \in BOOLEAN, sm \in BOOLEAN, rs \in BOOLEAN, vx \in BOOLEAN,
        ss \in SmaRuleSets }

\* the form's initial state (useState defaults)
DefaultConfig ==
    [frequency |-> "monthly", baseAmount |-> R(100),
     useDcaStrict |-> FALSE, useSellInMay |-> FALSE, useRsiRule |-> FALSE,
     useVixRule |-> FALSE,
     useSma20Rule |-> FALSE, useSma50Rule |-> FALSE,
     useSmaRule |-> TRUE, useSma200Rule |-> TRUE,
     sma20Multiplier |-> R(2), sma50Multiplier |-> R(2),
     sma100Multiplier |-> R(2), sma200Multiplier |-> R(2),
     vixMultiplier |-> R(3), vixThreshold |-> 40]

\* rows of GET /api/transactions (ORDER BY date ASC).  total_cost is
\* quantity * unit_price + fees; POST refuses a zero quantity but takes a
\* negative one, and PUT (the edit form) stores any quantity and any fees
ImportFees == {0, 2}

ImportRows ==
    { [date |-> d, quantity |-> q, price |-> 9, fees |-> f,
       invested_amount |-> q * 9 + f] :
        d \in {20230403, 20230501, 20230615}, q \in {-1, 0, 2},
        f \in ImportFees }

ImportLedgers ==
    UNION { { l \in [1..n -> ImportRows] :
                \A i \in 1..(n - 1) : l[i].date <= l[i + 1].date } :
            n \in 1..MaxImport }

\* the component after construction
InitDisplay ==
    /\ error = ""
    /\ transactions = <<>>
    /\ summary = <<>>
    /\ drawdownData = <<>>

InitRun ==
    /\ InitDisplay
    /\ InitServer
    /\ input = <<>>
    /\ output = <<>>
    /\ frame = <<>>
    /\ firstRun = <<>>
    /\ pc = "start"
    /\ idx = 1
    /\ txs = <<>>
    /\ totalShares = Zero /\ totalInvested = Zero
    /\ budgetDebt = Zero /\ savedCash = Zero

\* a simulation run: no imported ledger, any rule configuration.  Either
\* nothing was fetched before startDate and data[0] is allPrices[0], or
\* `lookback` holds the last day of the warm-up history.
InitSimulation ==
    /\ cfg \in Configs
    /\ usePortfolio = TRUE
    /\ portfolioTxs = <<>>
    /\ \E seg \in Segments :
          \/ /\ lookback = <<>>
             /\ data = FirstFetched(seg)
          \/ /\ Len(seg) > 1
             /\ lookback = <<[date |-> seg[1].date, price |-> seg[1].price,
                              sma20 |-> seg[1].sma20, sma50 |-> seg[1].sma50,
                              sma100 |-> seg[1].sma100, sma200 |-> seg[1].sma200]>>
             /\ data = Tail(seg)

\* a run with an imported ledger loaded, the toggle on or off
InitImport ==
    /\ cfg = DefaultConfig
    /\ usePortfolio \in BOOLEAN
    /\ portfolioTxs \in ImportLedgers
    /\ lookback = <<>>
    /\ \E seg \in Segments :
          /\ seg[1].date \in {Calendar[1], Calendar[2]} /\ Len(seg) <= 2
          /\ data = FirstFetched(seg)

\* a run whose fetch returned nothing from startDate on: no price at all, or
\* only days of the warm-up history
InitNoData ==
    /\ cfg \in { Config(f, FALSE, FALSE, FALSE, FALSE, {}) :
                   f \in {"daily", "monthly"} }
    /\ usePortfolio \in BOOLEAN
    /\ portfolioTxs \in { l \in ImportLedgers : Len(l) = 1 } \cup {<<>>}
    /\ data = <<>>
    /\ \/ lookback = <<>>
       \/ \E k \in DayKinds :
             lookback = <<[date |-> Calendar[1], price |-> k.price,
                           sma20 |-> k.price, sma50 |-> k.price,
                           sma100 |-> k.price, sma200 |-> k.price]>>

Init == InitRun /\ (InitSimulation \/ InitImport \/ InitNoData)

Next ==
    \/ ThrowNoData
    \/ ImportPortfolio
    \/ BeginSimulation
    \/ StrictBuy
    \/ SellInMaySkip
    \/ ZeroAmountSkip
    \/ RsiSkip
    \/ Purchase
    \/ EndSimulation
    \/ ThrowNoTransaction
    \/ Summarise

Spec == Init /\ [][Next]_vars

-----------------------------------------------------------------------------
(* Runs that follow one another in the same component *)

\* the form between two runs: every rule that keeps a counter, or strict mode
RerunConfigs ==
    { Config("daily", FALSE, FALSE, TRUE, TRUE, {20}),
      Config("daily", TRUE, FALSE, FALSE, FALSE, {}) }

\* what fetchMarketData returns for the chosen ticker and start date: slump
\* and spike days, which move budgetDebt and savedCash
RerunSeries ==
    { FirstFetched([i \in 1..MaxDays |-> Day(Calendar[i], ks[i])]) :
        ks \in [1..MaxDays -> { k \in DayKinds : k.rsiWeekly # 50 }] }

InitRerun ==
    /\ InitRun
    /\ cfg \in RerunConfigs
    /\ usePortfolio = FALSE
    /\ portfolioTxs = <<>>
    /\ lookback = <<>>
    /\ data \in RerunSeries

\* a rule toggle of the form is changed while no run is in progress
EditForm ==
    /\ pc \in {"done", "error"}
    /\ cfg' \in RerunConfigs \ {cfg}
    /\ UNCHANGED <<usePortfolio, portfolioTxs, lookback, data, pc, idx, txs,
                   totalShares, totalInvested, budgetDebt, savedCash>>
    /\ UNCHANGED <<display, call, firstRun, server>>

\* the run button is pressed again: setError(null) and the fetch of the
\* series.  The variables of the finished run are dead and keep their last
\* values until the new run declares its own.
runBacktest ==
    /\ pc \in {"done", "error"}
    /\ pc' = "start"
    /\ error' = ""
    /\ data' \in RerunSeries
    /\ UNCHANGED <<cfg, usePortfolio, portfolioTxs, lookback, idx, txs,
                   totalShares, totalInvested, budgetDebt, savedCash>>
    /\ UNCHANGED <<transactions, summary, drawdownData, call, firstRun, server>>

NextRerun ==
    \/ runBacktest
    \/ EditForm
    \/ BeginSimulation
    \/ StrictBuy
    \/ ZeroAmountSkip
    \/ RsiSkip
    \/ Purchase
    \/ EndSimulation
    \/ Summarise

SpecRerun == InitRerun /\ [][NextRerun]_vars

-----------------------------------------------------------------------------
(* A monthly schedule over a full year with Sell-in-May as the only rule *)

\* first trading day of each month, 2023-01 .. 2024-11
YearCalendar ==
    <<20230102, 20230201, 20230301, 20230403, 20230502, 20230601,
      20230703, 20230801, 20230901, 20231002, 20231101, 20231201,
      20240102, 20240201, 20240301, 20240402, 20240502, 20240603,
      20240701, 20240801, 20240902, 20241001, 20241101>>

InitYear ==
    /\ InitRun
    /\ cfg = Config("monthly", FALSE, TRUE, FALSE, FALSE, {})
    /\ usePortfolio = FALSE
    /\ portfolioTxs = <<>>
    /\ lookback = <<>>
    /\ \E m0 \in 1..12, k1 \in DayKinds, k2 \in DayKinds :
          data = FirstFetched([i \in 1..12 |->
                    Day(YearCalendar[m0 + i - 1], IF i <= 6 THEN k1 ELSE k2)])

NextYear ==
    \/ BeginSimulation
    \/ SellInMaySkip
    \/ Purchase
    \/ EndSimulation
    \/ Summarise

SpecYear == InitYear /\ [][NextYear]_vars

-----------------------------------------------------------------------------
(* Schedules of strict-mode runs over the days around a quarter start *)

\* 2023-09-29 Fri, 10-02 Mon, 10-03 Tue, 10-09 Mon, 11-01 Wed, 11-02 Thu,
\* 12-04 Mon
ScheduleCalendar ==
    <<20230929, 20231002, 20231003, 20231009, 20231101, 20231102, 20231204>>

\* the series made of the days of ScheduleCalendar at the positions in `keep`
RECURSIVE SeriesOver(_, _)
SeriesOver(keep, i) ==
    IF i > Len(ScheduleCalendar) THEN <<>>
    ELSE (IF i \in keep
          THEN <<Day(ScheduleCalendar[i], CHOOSE k \in DayKinds : k.rsiWeekly = 50)>>
          ELSE <<>>) \o SeriesOver(keep, i + 1)

InitSchedule ==
    /\ InitRun
    /\ \E f \in {"daily", "weekly", "monthly", "quarterly"} :
          cfg = Config(f, TRUE, FALSE, FALSE, FALSE, {})
    /\ usePortfolio = FALSE
    /\ portfolioTxs = <<>>
    /\ lookback = <<>>
    /\ \E keep \in (SUBSET (1..Len(ScheduleCalendar))) \ {{}} :
          data = FirstFetched(SeriesOver(keep, 1))

NextSchedule ==
    \/ BeginSimulation
    \/ StrictBuy
    \/ EndSimulation
    \/ ThrowNoTransaction
    \/ Summarise

SpecSchedule == InitSchedule /\ [][NextSchedule]_vars

-----------------------------------------------------------------------------
(* Calls of the exported functions of utils/calculations outside a run *)

\* the key of the week of a date: the UTC date (as a day number) of
\* weekStart after  weekStart.setDate(d.getDate() - d.getDay() + 1).
\* new Date(date) is UTC midnight; getDate, getDay and setDate work in local
\* time and toISOString prints UTC.  West of UTC the local calendar day is
\* the day before the date.
weekKey(date, west) ==
    IF west
    THEN LET localDay == DayNumber(date) - 1
             localGetDay == (getDay(date) + 6) % 7
         IN  (localDay - localGetDay + 1) + 1
    ELSE DayNumber(date) - getDay(date) + 1

\* the loop of resampleToWeekly from point i on; currentWeek = 0 stands for ''
RECURSIVE WeeklyLoop(_, _, _, _, _, _)
WeeklyLoop(dailyPrices, west, i, currentWeek, lastPrice, weeklyData) ==
    IF i > Len(dailyPrices)
    THEN IF lastPrice.date # 0 THEN Append(weeklyData, lastPrice) ELSE weeklyData
    ELSE LET key == weekKey(dailyPrices[i].date, west)
         IN  WeeklyLoop(dailyPrices, west, i + 1, key, dailyPrices[i],
                        IF key # currentWeek /\ currentWeek # 0
                        THEN Append(weeklyData, lastPrice) ELSE weeklyData)

resampleToWeekly(dailyPrices, west) ==
    WeeklyLoop(dailyPrices, west, 1, 0, [date |-> 0, price |-> 0], <<>>)

\* the loop of resampleToMonthly from point i on; currentMonth = 0 stands for ''
RECURSIVE MonthlyLoop(_, _, _, _, _)
MonthlyLoop(dailyPrices, i, currentMonth, lastPrice, monthlyData) ==
    IF i > Len(dailyPrices)
    THEN IF lastPrice.date # 0 THEN Append(monthlyData, lastPrice) ELSE monthlyData
    ELSE LET monthKey == MonthKey(dailyPrices[i].date)
         IN  MonthlyLoop(dailyPrices, i + 1, monthKey, dailyPrices[i],
                         IF monthKey # currentMonth /\ currentMonth # 0
                         THEN Append(monthlyData, lastPrice) ELSE monthlyData)

resampleToMonthly(dailyPrices) ==
    MonthlyLoop(dailyPrices, 1, 0, [date |-> 0, price |-> 0], <<>>)

\* the component is idle: nothing of a run is in progress
InitIdle ==
    /\ InitDisplay
    /\ InitServer
    /\ frame = <<>>
    /\ firstRun = <<>>
    /\ cfg = DefaultConfig
    /\ usePortfolio = FALSE
    /\ portfolioTxs = <<>>
    /\ lookback = <<>>
    /\ data = <<>>
    /\ idx = 1
    /\ txs = <<>>
    /\ totalShares = Zero /\ totalInvested = Zero
    /\ budgetDebt = Zero /\ savedCash = Zero

run == <<cfg, usePortfolio, portfolioTxs, lookback, data, idx, txs,
         totalShares, totalInvested, budgetDebt, savedCash>>

\* 2023-04-28 Fri, 04-29 Sat, 04-30 Sun, 05-01 Mon, 05-02 Tue, 05-07 Sun,
\* 05-08 Mon, 06-01 Thu: a daily series with week-end days, as a
\* cryptocurrency has
ResampleCalendar ==
    <<20230428, 20230429, 20230430, 20230501, 20230502, 20230507, 20230508,
      20230601>>

\* the days of ResampleCalendar at the positions in `keep`, priced by position
RECURSIVE DailyPricesOver(_, _)
DailyPricesOver(keep, i) ==
    IF i > Len(ResampleCalendar) THEN <<>>
    ELSE (IF i \in keep
          THEN <<[date |-> ResampleCalendar[i], price |-> 10 + i]>>
          ELSE <<>>) \o DailyPricesOver(keep, i + 1)

InitResample ==
    /\ InitIdle
    /\ pc = "call"
    /\ output = <<>>
    /\ \E keep \in SUBSET (1..Len(ResampleCalendar)), west \in BOOLEAN,
          fn \in {"resampleToWeekly", "resampleToMonthly"} :
          input = [fn |-> fn, dailyPrices |-> DailyPricesOver(keep, 1),
                   west |-> west]

CallResampleToWeekly ==
    /\ pc = "call" /\ input.fn = "resampleToWeekly"
    /\ output' = resampleToWeekly(input.dailyPrices, input.west)
    /\ pc' = "returned"
    /\ UNCHANGED <<run, display, input, frame, firstRun, server>>

CallResampleToMonthly ==
    /\ pc = "call" /\ input.fn = "resampleToMonthly"
    /\ output' = resampleToMonthly(input.dailyPrices)
    /\ pc' = "returned"
    /\ UNCHANGED <<run, display, input, frame, firstRun, server>>

NextResample == CallResampleToWeekly \/ CallResampleToMonthly

SpecResample == InitResample /\ [][NextResample]_vars

\* mutant: the warm-up average is divided by the period
calculateSMA_WarmupOverPeriod(prices, period) ==
    [i \in 1..Len(prices) |->
        IF i - 1 < period - 1
        THEN JsDiv(RSum(SubSeq(prices, 1, i)), R(period))
        ELSE JsDiv(RSum(SubSeq(prices, i - period + 1, i)), R(period))]

\* element i (1-based) is sma[i - 1] of the code
calculateSMA(prices, period) ==
    [i \in 1..Len(prices) |->
        IF i - 1 < period - 1
        THEN LET slice == SubSeq(prices, 1, i)
             IN  JsDiv(RSum(slice), R(Len(slice)))
        ELSE LET slice == SubSeq(prices, i - period + 1, i)
             IN  JsDiv(RSum(slice), R(period))]

\* every array of at most n prices out of a few values
PriceArrays(n) == UNION { [1..k -> {R(1), R(2), R(5)}] : k \in 0..n }

InitSMA ==
    /\ InitIdle
    /\ pc = "call"
    /\ output = <<>>
    /\ \E prices \in PriceArrays(MaxPrices), period \in 1..MaxPeriod :
          input = [fn |-> "calculateSMA", prices |-> prices, period |-> period]

CallSMA ==
    /\ pc = "call" /\ input.fn = "calculateSMA"
    /\ output' = calculateSMA(input.prices, input.period)
    /\ pc' = "returned"
    /\ UNCHANGED <<run, display, input, frame, firstRun, server>>

SpecSMA == InitSMA /\ [][CallSMA]_vars

\* portfolio values on the first n days of Calendar
ValueSeries(n) ==
    UNION { { [i \in 1..k |-> [date |-> Calendar[i], value |-> v[i]]] :
                v \in [1..k -> {R(-50), R(0), R(50), R(100), R(200)}] } :
            k \in 0..n }

InitDrawdown ==
    /\ InitIdle
    /\ pc = "call"
    /\ output = <<>>
    /\ \E pv \in ValueSeries(MaxPrices) :
          input = [fn |-> "calculateMaxDrawdown", portfolioValues |-> pv]

CallMaxDrawdown ==
    /\ pc = "call" /\ input.fn = "calculateMaxDrawdown"
    /\ output' = calculateMaxDrawdown(input.portfolioValues)
    /\ pc' = "returned"
    /\ UNCHANGED <<run, display, input, frame, firstRun, server>>

SpecDrawdown == InitDrawdown /\ [][CallMaxDrawdown]_vars

\* gains[i - 1] and losses[i - 1] of the code, i in 1..Len(prices) - 1
gains(prices) ==
    [i \in 1..(Len(prices) - 1) |->
        IF RLt(prices[i], prices[i + 1]) THEN RSub(prices[i + 1], prices[i]) ELSE Zero]

losses(prices) ==
    [i \in 1..(Len(prices) - 1) |->
        IF RLt(prices[i + 1], prices[i]) THEN RSub(prices[i], prices[i + 1]) ELSE Zero]

\* mutant of RsiWarmup: the first values are 0
RsiWarmup_Zero(period) == [i \in 1..period |-> Zero]

\* for (let i = 0; i < period; i++) rsi.push(50)
RsiWarmup(period) == [i \in 1..period |-> R(50)]

\* mutant of rsiValue: a zero average loss is taken as no strength at all
rsiValue_ZeroStrength(avgGain, avgLoss) ==
    LET strength == IF avgLoss = Zero THEN Zero ELSE JsDiv(avgGain, avgLoss)
    IN  RSub(R(100), JsDiv(R(100), RAdd(One, strength)))

\* const rs = avgLoss === 0 ? 100 : avgGain / avgLoss;
\* const rsiValue = 100 - (100 / (1 + rs));
rsiValue(avgGain, avgLoss) ==
    LET strength == IF avgLoss = Zero THEN R(100) ELSE JsDiv(avgGain, avgLoss)
    IN  RSub(R(100), JsDiv(R(100), RAdd(One, strength)))

\* the Wilder loop of calculateRSI from index i (0-based, as in the code) on
RECURSIVE RsiLoop(_, _, _, _, _, _)
RsiLoop(prices, period, i, avgGain, avgLoss, rsi) ==
    IF i >= Len(prices) THEN rsi
    ELSE LET g == IF i > period
                  THEN RDiv(RAdd(RMul(avgGain, R(period - 1)), gains(prices)[i]),
                            R(period))
                  ELSE avgGain
             l == IF i > period
                  THEN RDiv(RAdd(RMul(avgLoss, R(period - 1)), losses(prices)[i]),
                            R(period))
                  ELSE avgLoss
         IN  RsiLoop(prices, period, i + 1, g, l, Append(rsi, rsiValue(g, l)))

calculateRSI(prices, period) ==
    IF Len(prices) < period + 1
    THEN [i \in 1..Len(prices) |-> R(50)]
    ELSE RsiLoop(prices, period, period,
                 JsDiv(RSum(SubSeq(gains(prices), 1, period)), R(period)),
                 JsDiv(RSum(SubSeq(losses(prices), 1, period)), R(period)),
                 RsiWarmup(period))

\* closing prices that only rise or only fall: every strictly monotone
\* array of at least two of the prices 1 .. n + 2
Trends(n) ==
    UNION { { t \in [1..k -> { R(v) : v \in 1..(n + 2) }] :
                \/ \A i \in 1..(k - 1) : RLt(t[i], t[i + 1])
                \/ \A i \in 1..(k - 1) : RLt(t[i + 1], t[i]) } :
            k \in 2..n }

InitRSI ==
    /\ InitIdle
    /\ pc = "call"
    /\ output = <<>>
    /\ \E prices \in PriceArrays(MaxPrices) \cup Trends(MaxPrices),
          period \in 1..MaxPeriod :
          input = [fn |-> "calculateRSI", prices |-> prices, period |-> period]

CallRSI ==
    /\ pc = "call" /\ input.fn = "calculateRSI"
    /\ output' = calculateRSI(input.prices, input.period)
    /\ pc' = "returned"
    /\ UNCHANGED <<run, display, input, frame, firstRun, server>>

SpecRSI == InitRSI /\ [][CallRSI]_vars

-----------------------------------------------------------------------------
(* fetchMarketData: the indicators attached to the days of a fetched series *)

\* allPrices.map(p => p.price), as numbers
priceValues(ps) == [i \in 1..Len(ps) |-> R(ps[i].price)]

\* the entry of a Map filled by  ps.forEach((p, i) => map.set(p.date, v[i]))
\* that a date reads: the index of the last entry set for it (0: none)
mapIndex(ps, date) ==
    LET at == { i \in 1..Len(ps) : ps[i].date = date }
    IN  IF at = {} THEN 0 ELSE CHOOSE i \in at : \A j \in at : j <= i

\* lastSmaN when day i of allPrices has been visited by the fill-forward
\* loop: the value of the most recent weekly / monthly close, and
\* allPriceValues[0] before the first one
RECURSIVE lastSma(_, _, _, _)
lastSma(allPrices, resampled, values, i) ==
    IF i = 0 THEN priceValues(allPrices)[1]
    ELSE LET k == mapIndex(resampled, allPrices[i].date)
         IN  IF k # 0 THEN values[k]
             ELSE lastSma(allPrices, resampled, values, i - 1)

\* the value of the close of the week / month that day i belongs to
RECURSIVE ownPeriodClose(_, _, _, _)
ownPeriodClose(allPrices, resampled, values, i) ==
    LET k == mapIndex(resampled, allPrices[i].date)
    IN  IF k # 0 THEN values[k]
        ELSE ownPeriodClose(allPrices, resampled, values, i + 1)

\* mutant of smaMap: a day takes the value of the close of its own period
smaMap_OwnPeriodClose(allPrices, indicatorTimeframe, west, period) ==
    IF indicatorTimeframe = "daily"
    THEN calculateSMA(priceValues(allPrices), period)
    ELSE LET resampled == IF indicatorTimeframe = "weekly"
                          THEN resampleToWeekly(allPrices, west)
                          ELSE resampleToMonthly(allPrices)
             values == calculateSMA(priceValues(resampled), period)
         IN  [i \in 1..Len(allPrices) |->
                 ownPeriodClose(allPrices, resampled, values, i)]

\* smaNMap after the branch of indicatorTimeframe, by position in allPrices
smaMap(allPrices, indicatorTimeframe, west, period) ==
    IF indicatorTimeframe = "daily"
    THEN calculateSMA(priceValues(allPrices), period)
    ELSE LET resampled == IF indicatorTimeframe = "weekly"
                          THEN resampleToWeekly(allPrices, west)
                          ELSE resampleToMonthly(allPrices)
             values == calculateSMA(priceValues(resampled), period)
         IN  [i \in 1..Len(allPrices) |-> lastSma(allPrices, resampled, values, i)]

\* lastRsi when day i of prices has been mapped: the RSI of the most recent
\* weekly close, and 50 before the first one
RECURSIVE lastRsi(_, _, _, _)
lastRsi(prices, weeklyPrices, weeklyRsiValues, i) ==
    IF i = 0 THEN R(50)
    ELSE LET k == mapIndex(weeklyPrices, prices[i].date)
         IN  IF k # 0 THEN weeklyRsiValues[k]
             ELSE lastRsi(prices, weeklyPrices, weeklyRsiValues, i - 1)

\* smaNMap.get(p.date) || priceValues[i]
orPrice(value, price) == IF value = Zero \/ value = NaN THEN R(price) ELSE value

\* the array given to setMarketData: allPrices from startDate on, each day
\* with its moving averages, its weekly RSI and its VIX (0: none)
marketDataOf(allPrices, startDate, indicatorTimeframe, west, vixMap) ==
    LET sma20Map == smaMap(allPrices, indicatorTimeframe, west, 20)
        sma50Map == smaMap(allPrices, indicatorTimeframe, west, 50)
        sma100Map == smaMap(allPrices, indicatorTimeframe, west, 100)
        sma200Map == smaMap(allPrices, indicatorTimeframe, west, 200)
        prices == SelectSeq(allPrices, LAMBDA p : p.date >= startDate)
        weeklyPrices == resampleToWeekly(prices, west)
        weeklyRsiValues == calculateRSI(priceValues(weeklyPrices), 14)
    IN  [i \in 1..Len(prices) |->
            LET p == prices[i]
                at == mapIndex(allPrices, p.date)
            IN  [date |-> p.date,
                 price |-> p.price,
                 sma20 |-> orPrice(sma20Map[at], p.price),
                 sma50 |-> orPrice(sma50Map[at], p.price),
                 sma100 |-> orPrice(sma100Map[at], p.price),
                 sma200 |-> orPrice(sma200Map[at], p.price),
                 rsiWeekly |-> lastRsi(prices, weeklyPrices, weeklyRsiValues, i),
                 vix |-> vixMap[p.date]]]

\* the smallest integer that is not below x (x >= 0)
Ceiling(x) == (x[1] + x[2] - 1) \div x[2]

\* The loop reads a moving average only in  pt.price < pt.smaN  and
\* prev.price >= prev.smaN  with whole prices, and the RSI only in
\* pt.rsiWeekly (truthy), > 70 and < 30.  The run keeps for every indicator
\* a whole number that answers each of these tests as the number itself.
asCompared(p) ==
    LET rsi == p.rsiWeekly
    IN  [date |-> p.date, price |-> p.price,
         sma20 |-> Ceiling(p.sma20), sma50 |-> Ceiling(p.sma50),
         sma100 |-> Ceiling(p.sma100), sma200 |-> Ceiling(p.sma200),
         rsiWeekly |-> IF rsi = Zero THEN 0
                       ELSE IF RLe(R(50), rsi) THEN Ceiling(rsi)
                       ELSE IF RLt(rsi, One) THEN 1
                       ELSE rsi[1] \div rsi[2],
         vix |-> p.vix]

\* 2022-12-30 Fri, then sixteen weeks from Monday 2023-01-02 on: every
\* Monday, and the Friday of four of the weeks
IndicatorCalendar ==
    <<20221230,
      20230102, 20230106, 20230109, 20230116, 20230123, 20230130,
      20230206, 20230213, 20230220, 20230227,
      20230306, 20230313, 20230320, 20230327, 20230331,
      20230403, 20230410, 20230414, 20230417, 20230421>>

\* three courses of the price over IndicatorCalendar: a rise, a rise that
\* turns, and a fall with rebounds
PriceCourses ==
    << <<4, 4, 5, 5, 5, 8, 8, 8, 10, 10, 10, 16, 16, 16, 20, 20, 20, 25, 25, 25, 40>>,
       <<8, 10, 10, 16, 16, 20, 20, 25, 25, 20, 20, 25, 20, 16, 20, 16, 10, 16, 10, 8, 10>>,
       <<40, 25, 25, 20, 25, 20, 16, 16, 20, 16, 10, 10, 8, 10, 8, 5, 5, 8, 5, 4, 5>> >>

\* the series that follows course a before day k and course b from day k on
Spliced(a, b, k) ==
    [i \in 1..Len(IndicatorCalendar) |->
        [date |-> IndicatorCalendar[i], price |-> IF i < k THEN a[i] ELSE b[i]]]

\* the VIX closes of the period: over the threshold in the second week of
\* March, absent on the Fridays
VixCloses ==
    [date \in { IndicatorCalendar[i] : i \in 1..Len(IndicatorCalendar) } |->
        IF getDay(date) = 5 THEN 0 ELSE IF date = 20230313 THEN 50 ELSE 20]

\* every rule that reads an indicator, on every day of the series
IndicatorConfigs == { Config("daily", FALSE, FALSE, TRUE, TRUE, {20, 50, 100, 200}) }

\* the component before its first run, and the two tickers that will be run
\* one after the other with the same form and start date 2023-01-01: their
\* prices part at some day, or never
InitIndicators ==
    /\ InitDisplay
    /\ InitServer
    /\ frame = <<>>
    /\ firstRun = <<>>
    /\ pc = "idle"
    /\ output = <<>>
    /\ cfg \in IndicatorConfigs
    /\ usePortfolio = FALSE
    /\ portfolioTxs = <<>>
    /\ lookback = <<>>
    /\ data = <<>>
    /\ idx = 1
    /\ txs = <<>>
    /\ totalShares = Zero /\ totalInvested = Zero
    /\ budgetDebt = Zero /\ savedCash = Zero
    /\ \E c \in 1..Len(PriceCourses), k \in 2..(Len(IndicatorCalendar) + 1),
          tf \in {"daily", "weekly", "monthly"}, west \in BOOLEAN :
          LET a == PriceCourses[c]
              b == PriceCourses[(c % Len(PriceCourses)) + 1]
          IN  input = [allPrices |-> <<Spliced(a, a, 1), Spliced(a, b, k)>>,
                       startDate |-> 20230101, indicatorTimeframe |-> tf,
                       west |-> west, vixMap |-> VixCloses]

\* the run button: setError(null), the fetch of the next ticker's prices
\* and setMarketData.  `output` keeps the market data of every run so far.
fetchMarketData ==
    /\ pc \in {"idle", "done", "error"}
    /\ Len(output) < Len(input.allPrices)
    /\ LET allPrices == input.allPrices[Len(output) + 1]
           fetched == marketDataOf(allPrices, input.startDate,
                                   input.indicatorTimeframe, input.west,
                                   input.vixMap)
           whole == marketDataOf(allPrices, 0, input.indicatorTimeframe,
                                 input.west, input.vixMap)
           history == Len(allPrices) - Len(fetched)
       IN  /\ output' = Append(output, fetched)
           /\ data' = [i \in 1..Len(fetched) |-> asCompared(fetched[i])]
           /\ lookback' = IF history = 0 THEN <<>>
                          ELSE LET p == asCompared(whole[history])
                               IN  <<[date |-> p.date, price |-> p.price,
                                      sma20 |-> p.sma20, sma50 |-> p.sma50,
                                      sma100 |-> p.sma100, sma200 |-> p.sma200]>>
    /\ pc' = "start"
    /\ error' = ""
    /\ UNCHANGED <<cfg, usePortfolio, portfolioTxs, idx, txs,
                   totalShares, totalInvested, budgetDebt, savedCash>>
    /\ UNCHANGED <<transactions, summary, drawdownData, input, frame, firstRun, server>>

NextIndicators ==
    \/ fetchMarketData
    \/ BeginSimulation
    \/ ZeroAmountSkip
    \/ RsiSkip
    \/ Purchase
    \/ EndSimulation
    \/ Summarise

SpecIndicators == InitIndicators /\ [][NextIndicators]_vars

-----------------------------------------------------------------------------
(* The backend under concurrent requests *)

\* the frontend is idle; the requests are on their way
InitBackend ==
    /\ InitIdle
    /\ pc = "idle"
    /\ input = <<>>
    /\ output = <<>>

NextBackend ==
    \/ TimePasses
    \/ \E r \in Requests : CacheMiss(r)
    \/ \E r \in Requests : RateLimit(r)
    \/ \E r \in Requests : TimerFires(r)
    \/ \E r \in Requests : Respond(r)

SpecBackend == InitBackend /\ [][NextBackend]_vars

\* arguments of calculateCAGR: values and numbers of years on both sides of
\* each guard
CagrValues == { R(-100), Zero, R(50), R(100), R(200) }

CagrYears == { R(-1), Zero, Norm(1, 2), One, R(2) }

InitCAGR ==
    /\ InitIdle
    /\ pc = "call"
    /\ output = <<>>
    /\ \E startValue \in CagrValues, endValue \in CagrValues, years \in CagrYears :
          input = [fn |-> "calculateCAGR", startValue |-> startValue,
                   endValue |-> endValue, years |-> years]

CallCAGR ==
    /\ pc = "call" /\ input.fn = "calculateCAGR"
    /\ output' = calculateCAGR(input.startValue, input.endValue, input.years)
    /\ pc' = "returned"
    /\ UNCHANGED <<run, display, input, frame, firstRun, server>>

SpecCAGR == InitCAGR /\ [][CallCAGR]_vars

\* calculateXIRR step by step.  The sums npv and dnpv are floating-point
\* powers and quotients of the cash flows; the Newton step they give is any
\* of the estimates below, and the derivative may or may not be flat, except
\* that cash flows of one instant have years[j] = 0 and dnpv exactly 0.
maxIterations == 100

tolerance == Norm(1, 10000000)

guess == Norm(1, 10)

NewtonEstimates == { R(-2), Norm(-99, 100), Norm(-1, 2), guess, R(10), R(12) }

CashFlows ==
    { [date |-> d, amount |-> a] :
        d \in {20230403, 20240403}, a \in {R(-100), R(150)} }

CashFlowArrays == UNION { [1..k -> CashFlows] : k \in 0..2 }

MathAbs(x) == <<Abs(x[1]), x[2]>>

\* Math.abs(x) < tolerance, without leaving the 32-bit integers: a
\* numerator of 215 or more times 10^7 exceeds every denominator
BelowTolerance(x) ==
    /\ MathAbs(x)[1] < 215
    /\ MathAbs(x)[1] * tolerance[2] < MathAbs(x)[2] * tolerance[1]

\* every years[j] is 0
OneInstant(cashFlows) ==
    \A j \in 1..Len(cashFlows) : cashFlows[j].date = cashFlows[1].date

\* mutant of clampRate: only the upper guard
clampRate_UpperOnly(rate) == IF RLt(R(10), rate) THEN R(10) ELSE rate

\* if (rate < -0.99) rate = -0.99; if (rate > 10) rate = 10;
clampRate(rate) ==
    IF RLt(rate, Norm(-99, 100)) THEN Norm(-99, 100)
    ELSE IF RLt(R(10), rate) THEN R(10) ELSE rate

InitXIRR ==
    /\ InitIdle
    /\ pc = "call"
    /\ output = <<>>
    /\ \E cashFlows \in CashFlowArrays :
          input = [fn |-> "calculateXIRR", cashFlows |-> cashFlows]

\* if (cashFlows.length < 2) return 0; ... let rate = guess;
XirrEnter ==
    /\ pc = "call" /\ input.fn = "calculateXIRR"
    /\ IF Len(input.cashFlows) < 2
       THEN /\ output' = Zero
            /\ pc' = "returned"
            /\ UNCHANGED frame
       ELSE /\ frame' = [i |-> 0, rate |-> guess]
            /\ pc' = "newton"
            /\ UNCHANGED output
    /\ UNCHANGED <<run, display, input, firstRun, server>>

\* if (Math.abs(dnpv) < 1e-10) break; ... return rate * 100;
XirrFlatDerivative ==
    /\ pc = "newton" /\ frame.i < maxIterations
    /\ output' = RMul(frame.rate, R(100))
    /\ pc' = "returned"
    /\ UNCHANGED <<run, display, input, frame, firstRun, server>>

\* if (Math.abs(newRate - rate) < tolerance) return newRate * 100;
XirrConverged ==
    /\ pc = "newton" /\ frame.i < maxIterations
    /\ ~OneInstant(input.cashFlows)
    /\ \E newRate \in NewtonEstimates :
          /\ BelowTolerance(RSub(newRate, frame.rate))
          /\ output' = RMul(newRate, R(100))
    /\ pc' = "returned"
    /\ UNCHANGED <<run, display, input, frame, firstRun, server>>

\* rate = newRate, guarded against divergence; i++
XirrIterate ==
    /\ pc = "newton" /\ frame.i < maxIterations
    /\ ~OneInstant(input.cashFlows)
    /\ \E newRate \in NewtonEstimates :
          /\ ~BelowTolerance(RSub(newRate, frame.rate))
          /\ frame' = [i |-> frame.i + 1, rate |-> clampRate(newRate)]
    /\ UNCHANGED <<run, display, input, output, pc, firstRun, server>>

\* the for loop ran out: return rate * 100;
XirrExhausted ==
    /\ pc = "newton" /\ frame.i >= maxIterations
    /\ output' = RMul(frame.rate, R(100))
    /\ pc' = "returned"
    /\ UNCHANGED <<run, display, input, frame, firstRun, server>>

NextXIRR ==
    \/ XirrEnter
    \/ XirrFlatDerivative
    \/ XirrConverged
    \/ XirrIterate
    \/ XirrExhausted

SpecXIRR == InitXIRR /\ [][NextXIRR]_vars

\* ledgers given to calculateBestWorstMonths, which reads the date and the
\* portfolioValue of a transaction: the first n days of Calendar (April, two
\* days of May, July, ...)
ValuedLedgers(n) ==
    UNION { { [i \in 1..k |-> [date |-> Calendar[i], portfolioValue |-> v[i]]] :
                v \in [1..k -> {Zero, R(100), R(110)}] } :
            k \in 0..n }

InitBestWorst ==
    /\ InitIdle
    /\ pc = "call"
    /\ output = <<>>
    /\ \E ledger \in ValuedLedgers(MaxPrices) :
          input = [fn |-> "calculateBestWorstMonths", transactions |-> ledger]

CallBestWorstMonths ==
    /\ pc = "call" /\ input.fn = "calculateBestWorstMonths"
    /\ output' \in calculateBestWorstMonths(input.transactions)
    /\ pc' = "returned"
    /\ UNCHANGED <<run, display, input, frame, firstRun, server>>

SpecBestWorst == InitBestWorst /\ [][CallBestWorstMonths]_vars

-----------------------------------------------------------------------------
(* Properties of the ledger *)

Finished == pc \in {"built", "done", "error"}

Simulating == ~UsesImport /\ pc # "start"

LastTx == txs[Len(txs)]

\* C1: in every ledger (simulation and import) accumulatedShares of each
\* transaction is the sum of sharesBought up to it, and never decreases from
\* one transaction to the next.
C1_RunningSumNonDecreasing ==
    \A i \in 1..Len(txs) :
        /\ txs[i].accumulatedShares = RSum([j \in 1..i |-> txs[j].sharesBought])
        /\ i > 1 => RLe(txs[i - 1].accumulatedShares, txs[i].accumulatedShares)

\* C2: in simulation mode the ledger holds exactly one transaction per
\* scheduled date, in schedule order with ascending dates, whichever branch
\* handled the date, and a step of the loop only appends to it.
C2_LedgerShape ==
    Simulating =>
        /\ Len(txs) = idx - 1
        /\ Len(txs) <= Len(filteredDates)
        /\ Finished => Len(txs) = Len(filteredDates)
        /\ \A i \in 1..Len(txs) :
              /\ txs[i].date = filteredDates[i].date
              /\ i > 1 => txs[i - 1].date < txs[i].date

C2_OneTransactionPerDate ==
    /\ []C2_LedgerShape
    /\ [][pc = "loop" =>
            /\ Len(txs') >= Len(txs)
            /\ SubSeq(txs', 1, Len(txs)) = txs
            /\ idx' # idx => Len(txs') = Len(txs) + 1]_vars

C2_Witness ==
    /\ pc = "done" /\ ~UsesImport
    /\ Len(txs) = 2 /\ Len(data) = 3
    /\ \E i \in 1..2 : txs[i].reason = <<"sellInMay">>
    /\ \E i \in 1..2 : txs[i].multiplierApplied # Zero

\* C3: with strict mode on, whatever the other flags, multipliers and
\* thresholds, every scheduled date yields investedAmount = baseAmount,
\* multiplierApplied = 1 and an empty reason; the total over N dates is
\* baseAmount x N and budgetDebt and savedCash stay 0.
C3_StrictInvestsBase ==
    (Simulating /\ cfg.useDcaStrict) =>
        /\ \A i \in 1..Len(txs) :
              /\ txs[i].investedAmount = cfg.baseAmount
              /\ txs[i].multiplierApplied = One
              /\ txs[i].reason = <<>>
        /\ RSum([i \in 1..Len(txs) |-> txs[i].investedAmount])
              = RMul(cfg.baseAmount, R(Len(txs)))
        /\ totalInvested = RMul(cfg.baseAmount, R(Len(txs)))
        /\ Finished => Len(txs) = Len(filteredDates)
        /\ budgetDebt = Zero /\ savedCash = Zero

C3_Witness ==
    /\ pc = "done" /\ ~UsesImport /\ cfg.useDcaStrict
    /\ cfg.useSellInMay /\ cfg.useRsiRule /\ cfg.useVixRule /\ cfg.useSma20Rule
    /\ Len(txs) = 3
    /\ \E i \in 1..3 : isSummerMonth(filteredDates[i])
    /\ \E i \in 1..3 : filteredDates[i].rsiWeekly > 70
    /\ \E i \in 1..3 : filteredDates[i].vix > cfg.vixThreshold

-----------------------------------------------------------------------------
(* Properties of the rule chain *)

Has(tx, tag) == \E i \in 1..Len(tx.reason) : tx.reason[i] = tag

NoMultiplierTag(tx) ==
    \A tag \in {"sma20", "sma50", "sma100", "sma200", "vix"} : ~Has(tx, tag)

OnlySellInMay ==
    /\ cfg.useSellInMay /\ ~cfg.useDcaStrict /\ ~cfg.useRsiRule /\ ~cfg.useVixRule
    /\ ~cfg.useSma20Rule /\ ~cfg.useSma50Rule /\ ~cfg.useSmaRule /\ ~cfg.useSma200Rule

ScheduledSummer == { i \in 1..Len(filteredDates) : getMonth(filteredDates[i].date) \in 4..7 }

ScheduledWinter == (1..Len(filteredDates)) \ ScheduledSummer

\* (count of summer dates x base amount) / (count of winter dates)
BonusPerWinterDate ==
    IF ScheduledWinter = {} THEN Zero
    ELSE RDiv(RMul(R(Cardinality(ScheduledSummer)), cfg.baseAmount),
              R(Cardinality(ScheduledWinter)))

\* the date at idx gets past the strict branch and the summer skip
AtDebtStep ==
    /\ InLoop /\ ~cfg.useDcaStrict
    /\ ~(cfg.useSellInMay /\ idx \in ScheduledSummer)

BonusHere ==
    IF cfg.useSellInMay /\ idx \in ScheduledWinter THEN BonusPerWinterDate ELSE Zero

BaseHere == IF RLe(cfg.baseAmount, budgetDebt) THEN Zero ELSE cfg.baseAmount

DebtAfterStep ==
    IF RLe(cfg.baseAmount, budgetDebt) THEN RSub(budgetDebt, cfg.baseAmount)
    ELSE budgetDebt

Accrued(tx) ==
    IF RLt(cfg.baseAmount, tx.investedAmount)
    THEN RSub(tx.investedAmount, cfg.baseAmount) ELSE Zero

\* C4: with Sell-in-May as the only rule and a schedule over a full year, the
\* total invested equals baseAmount x (number of scheduled dates).
C4_SellInMayYearTotal ==
    (pc = "done" /\ ~UsesImport /\ OnlySellInMay /\ Len(filteredDates) = 12) =>
        RSum([i \in 1..Len(txs) |-> txs[i].investedAmount])
            = RMul(cfg.baseAmount, R(Len(filteredDates)))

\* C5: at a date that reaches the debt step, budgetDebt >= baseAmount makes the
\* step take exactly baseAmount off budgetDebt and the base contribution 0;
\* otherwise the step leaves budgetDebt alone and the base contribution is
\* baseAmount.  budgetDebt is never negative.
C5_DebtStep ==
    /\ [](RLe(Zero, budgetDebt))
    /\ [][AtDebtStep =>
            LET tx == txs'[Len(txs')]
                stepDebt == RSub(budgetDebt', Accrued(tx))
                cash == IF Has(tx, "rsiDeploy") THEN savedCash ELSE Zero
                contribution ==
                    RSub(RDiv(tx.investedAmount, tx.multiplierApplied),
                         RAdd(BonusHere, cash))
            IN  IF RLe(cfg.baseAmount, budgetDebt)
                THEN /\ stepDebt = RSub(budgetDebt, cfg.baseAmount)
                     /\ tx.multiplierApplied # Zero => contribution = Zero
                     /\ tx.reason # <<"rsiSkip">> => Has(tx, "debt")
                ELSE /\ stepDebt = budgetDebt
                     /\ tx.multiplierApplied # Zero => contribution = cfg.baseAmount
                     /\ ~Has(tx, "debt")]_vars

C5_Witness ==
    /\ pc = "done" /\ ~UsesImport
    /\ RLt(Zero, budgetDebt)
    /\ \E i \in 1..Len(txs), j \in 1..Len(txs) :
          /\ i < j
          /\ RLt(cfg.baseAmount, txs[i].investedAmount)
          /\ Has(txs[j], "debt") /\ txs[j].investedAmount # Zero

\* C6: the rule chain short-circuits in the order strict > summer skip > debt
\* waiver > RSI skip > multipliers: a date handled by the summer skip, by a
\* waiver with no bonus or by the RSI > 70 skip invests 0 with multiplier 0
\* and applies no SMA or VIX multiplier; a summer skip changes neither
\* budgetDebt nor savedCash.
C6_PriorityChain ==
    [][InLoop =>
        LET tx == txs'[Len(txs')]
            skipped == /\ tx.investedAmount = Zero /\ tx.sharesBought = Zero
                       /\ tx.multiplierApplied = Zero /\ NoMultiplierTag(tx)
            summer == cfg.useSellInMay /\ idx \in ScheduledSummer
            waivedNoBonus == RLe(cfg.baseAmount, budgetDebt) /\ BonusHere = Zero
            rsiHigh == cfg.useRsiRule /\ pt.rsiWeekly > 70
        IN  /\ cfg.useDcaStrict =>
                 tx.multiplierApplied = One /\ tx.investedAmount = cfg.baseAmount
            /\ (~cfg.useDcaStrict /\ summer) =>
                 /\ skipped /\ tx.reason = <<"sellInMay">>
                 /\ budgetDebt' = budgetDebt /\ savedCash' = savedCash
            /\ (~cfg.useDcaStrict /\ ~summer /\ waivedNoBonus) =>
                 /\ skipped /\ tx.reason = <<"debt">>
                 /\ savedCash' = savedCash
            /\ (~cfg.useDcaStrict /\ ~summer /\ ~waivedNoBonus /\ rsiHigh) =>
                 skipped /\ tx.reason = <<"rsiSkip">>
            /\ (~cfg.useDcaStrict /\ ~summer /\ ~waivedNoBonus /\ ~rsiHigh) =>
                 ~RLt(tx.multiplierApplied, One) /\ RLt(Zero, tx.investedAmount)]_vars

C6_Witness ==
    /\ pc = "done" /\ ~UsesImport
    /\ cfg.useVixRule /\ cfg.useSma20Rule
    /\ \E i \in 1..Len(txs) :
          /\ txs[i].reason = <<"sellInMay">>
          /\ filteredDates[i].vix > cfg.vixThreshold
          /\ filteredDates[i].price < filteredDates[i].sma20
          /\ prevWasAboveSma20(filteredDates[i])
    /\ \E i \in 1..Len(txs) :
          /\ txs[i].reason = <<"rsiSkip">>
          /\ filteredDates[i].vix > cfg.vixThreshold

-----------------------------------------------------------------------------
(* Properties of the multiplier rules *)

\* the daily series the indicators were computed on: the warm-up history
\* followed by the window
series == lookback \o data

seriesIndex(date) == CHOOSE k \in 1..Len(series) : series[k].date = date

\* the ledger entry of the i-th scheduled date went through the multiplier step
ReachedMultiplierStep(i) ==
    ~cfg.useDcaStrict /\ txs[i].multiplierApplied # Zero

SmaTags == {"sma20", "sma50", "sma100", "sma200"}

smaOf(p, tag) ==
    CASE tag = "sma20" -> p.sma20
      [] tag = "sma50" -> p.sma50
      [] tag = "sma100" -> p.sma100
      [] tag = "sma200" -> p.sma200

smaRuleOn(tag) ==
    CASE tag = "sma20" -> cfg.useSma20Rule
      [] tag = "sma50" -> cfg.useSma50Rule
      [] tag = "sma100" -> cfg.useSmaRule
      [] tag = "sma200" -> cfg.useSma200Rule

multiplierOf(tag) ==
    CASE tag = "sma20" -> cfg.sma20Multiplier
      [] tag = "sma50" -> cfg.sma50Multiplier
      [] tag = "sma100" -> cfg.sma100Multiplier
      [] tag = "sma200" -> cfg.sma200Multiplier
      [] tag = "vix" -> cfg.vixMultiplier

\* the price closed under the average on this date and was at or above it on
\* the previous day of the series
FreshDownwardCrossing(p, tag) ==
    LET k == seriesIndex(p.date)
    IN  /\ p.price < smaOf(p, tag)
        /\ k > 1
        /\ series[k - 1].price >= smaOf(series[k - 1], tag)

\* C8: an enabled SMA rule adds its (multiplier - 1) at a scheduled date only
\* on a fresh downward crossing: the price is below the SMA on that date and
\* was at or above it on the previous day of the series; a continued
\* stay-below does not fire the rule.
C8_SmaFreshCrossingOnly ==
    (pc = "done" /\ ~UsesImport) =>
        \A i \in 1..Len(txs) : \A tag \in SmaTags :
            ReachedMultiplierStep(i) =>
                (Has(txs[i], tag) <=>
                    smaRuleOn(tag) /\ FreshDownwardCrossing(filteredDates[i], tag))

\* the days of the window after the previous scheduled date, up to and
\* including the i-th scheduled date
DaysSincePrevious(i) ==
    LET prev == IF i = 1 THEN 0 ELSE findIndex(filteredDates[i - 1].date)
    IN  (prev + 1)..findIndex(filteredDates[i].date)

MaxVixOver(days) ==
    IF days = {} THEN 0
    ELSE CHOOSE v \in {data[k].vix : k \in days} :
             \A k \in days : data[k].vix <= v

\* C9: the VIX value compared with the threshold at the i-th scheduled date is
\* the maximum VIX over the days of the window after the previous scheduled
\* date up to and including that date (a missing value counts as 0), so the
\* VIX rule adds its multiplier exactly when that maximum is above the
\* threshold, and the intervals of two scheduled dates share no day.
C9_VixSincePreviousDate ==
    (pc = "done" /\ ~UsesImport) =>
        /\ \A i \in 1..Len(txs) :
              ReachedMultiplierStep(i) =>
                  (Has(txs[i], "vix") <=>
                      cfg.useVixRule
                      /\ MaxVixOver(DaysSincePrevious(i)) > cfg.vixThreshold)
        /\ \A i \in 1..Len(txs), j \in 1..Len(txs) :
              i # j => DaysSincePrevious(i) \cap DaysSincePrevious(j) = {}

C9_Witness ==
    /\ pc = "done" /\ ~UsesImport
    /\ \E i \in 2..Len(txs) :
          /\ Has(txs[i], "vix")
          /\ filteredDates[i].vix # 0
          /\ filteredDates[i].vix < cfg.vixThreshold
          /\ ~Has(txs[i - 1], "vix")
          /\ ReachedMultiplierStep(i - 1)

FiredTags(tx) == { tag \in SmaTags \cup {"vix"} : Has(tx, tag) }

RECURSIVE SumOfExtras(_)
SumOfExtras(tags) ==
    IF tags = {} THEN Zero
    ELSE LET tag == CHOOSE t \in tags : TRUE
         IN  RAdd(RSub(multiplierOf(tag), One), SumOfExtras(tags \ {tag}))

\* C10: at a date that reaches the purchase step, multiplierApplied is 1 plus
\* the sum of (m - 1) over the rules that fired, investedAmount is
\* (effective base + Sell-in-May bonus + deployed savedCash) x
\* multiplierApplied, and budgetDebt grows by investedAmount - baseAmount
\* exactly when that difference is positive.
C10_AdditiveStacking ==
    [][(AtDebtStep /\ txs'[Len(txs')].multiplierApplied # Zero) =>
            LET tx == txs'[Len(txs')]
                cash == IF Has(tx, "rsiDeploy") THEN savedCash ELSE Zero
                amount == RAdd(RAdd(BaseHere, BonusHere), cash)
                excess == RSub(tx.investedAmount, cfg.baseAmount)
            IN  /\ tx.multiplierApplied = RAdd(One, SumOfExtras(FiredTags(tx)))
                /\ tx.investedAmount = RMul(amount, tx.multiplierApplied)
                /\ tx.sharesBought = RDiv(tx.investedAmount, tx.price)
                /\ totalInvested' = RAdd(totalInvested, tx.investedAmount)
                /\ budgetDebt' = IF RLt(Zero, excess)
                                 THEN RAdd(DebtAfterStep, excess)
                                 ELSE DebtAfterStep]_vars

C10_Witness ==
    /\ pc = "done" /\ ~UsesImport
    /\ \E i \in 1..Len(txs), j \in 1..Len(txs) :
          /\ Cardinality(FiredTags(txs[i])) >= 3
          /\ Has(txs[i], "vix") /\ Has(txs[i], "sma50")
          /\ RLt(cfg.baseAmount, txs[i].investedAmount)
          /\ ReachedMultiplierStep(j)
          /\ ~RLt(cfg.baseAmount, txs[j].investedAmount)

-----------------------------------------------------------------------------
(* Properties of the ledger fields *)

\* the ledger the run hands to setTransactions
LedgerBuilt == pc \in {"built", "done"}

\* a transaction of the simulation that bought something
IsPurchaseTx(tx) == tx.multiplierApplied # Zero

\* C11: in every ledger (simulation and import) investedAmount = 0 exactly
\* when sharesBought = 0, and in simulation mode every purchase has
\* sharesBought x price = investedAmount.
C11_InvestedZeroIffNoShares ==
    LedgerBuilt =>
        \A i \in 1..Len(txs) :
            /\ (txs[i].investedAmount = Zero) <=> (txs[i].sharesBought = Zero)
            /\ (~UsesImport /\ IsPurchaseTx(txs[i])) =>
                   RMul(txs[i].sharesBought, txs[i].price) = txs[i].investedAmount

\* C12: in every ledger (simulation and import) portfolioValue is
\* accumulatedShares x the transaction's own price field.
C12_PortfolioValueOwnPrice ==
    LedgerBuilt =>
        \A i \in 1..Len(txs) :
            txs[i].portfolioValue = RMul(txs[i].accumulatedShares, txs[i].price)

-----------------------------------------------------------------------------
(* Properties of the schedule *)

DayOfMonth(date) == date % 100

MonthOfYear(date) == (date \div 100) % 100

YearMonth(date) == date \div 100

Mondays == {20230403, 20230501, 20230703, 20231002, 20231009, 20231204}

ScheduledDates == { filteredDates[i].date : i \in 1..Len(filteredDates) }

SeriesDates == { data[i].date : i \in 1..Len(data) }

\* the first series date of the calendar month of `date` with day-of-month <= 3
FirstEarlyDateOfMonth(date) ==
    /\ DayOfMonth(date) <= 3
    /\ \A e \in SeriesDates :
          (YearMonth(e) = YearMonth(date) /\ DayOfMonth(e) <= 3) => date <= e

QuarterStart(date) == MonthOfYear(date) \in {1, 4, 7, 10}

MonthlySchedule ==
    /\ ScheduledDates = { d \in SeriesDates : FirstEarlyDateOfMonth(d) }
    /\ \A d \in ScheduledDates, e \in ScheduledDates :
          YearMonth(d) = YearMonth(e) => d = e

QuarterlySchedule ==
    /\ ScheduledDates
         = { d \in SeriesDates : QuarterStart(d) /\ FirstEarlyDateOfMonth(d) }
    /\ \A d \in ScheduledDates, e \in ScheduledDates :
          YearMonth(d) = YearMonth(e) => d = e

DailySchedule == filteredDates = data

WeeklySchedule == ScheduledDates = SeriesDates \cap Mondays

ScheduleAscending ==
    /\ Len(filteredDates) = Cardinality(ScheduledDates)
    /\ \A i \in 1..(Len(filteredDates) - 1) :
          filteredDates[i].date < filteredDates[i + 1].date

\* C13: the schedule holds at most one date per period: monthly the first
\* series date of each month with day-of-month <= 3, quarterly the first
\* series date with day-of-month <= 3 of January, April, July and October;
\* daily every series date and weekly every Monday.
C13_OneDatePerPeriod ==
    /\ ScheduleAscending
    /\ cfg.frequency = "monthly" => MonthlySchedule
    /\ cfg.frequency = "quarterly" => QuarterlySchedule
    /\ cfg.frequency = "daily" => DailySchedule
    /\ cfg.frequency = "weekly" => WeeklySchedule

-----------------------------------------------------------------------------
(* Properties of the end of a run *)

\* C14: a run whose price series is empty, or whose ledger is empty after the
\* simulation or the import, ends in the error state with a message and sets
\* no summary, no transaction ledger and no drawdown series.
C14_EmptyRunIsAnError ==
    /\ []((Finished /\ Len(txs) = 0) => pc \in {"built", "error"})
    /\ [](pc = "error" =>
            /\ error # ""
            /\ (NoPriceData \/ Len(txs) = 0)
            /\ summary = <<>> /\ transactions = <<>> /\ drawdownData = <<>>)
    /\ [](pc = "done" => (~NoPriceData /\ Len(txs) > 0 /\ error = ""))
    /\ [][(pc = "start" /\ NoPriceData) \/ (pc = "built" /\ Len(txs) = 0) =>
            /\ pc' = "error" /\ error' # ""
            /\ summary' = summary /\ transactions' = transactions
            /\ drawdownData' = drawdownData]_vars

C14_Witness ==
    /\ pc = "error" /\ ~NoPriceData /\ Len(data) > 0
    /\ ~UsesImport /\ cfg.frequency = "quarterly"
    /\ error = "Aucune transaction generee"

\* C15: for every non-empty ledger no field of the summary is the result of
\* a division by zero (NaN or +-Infinity): every zero denominator is caught
\* by a guard that yields 0.
C15_SummaryHasNoDivisionByZero ==
    pc = "done" =>
        LET s == summary[1]
        IN  /\ isFinite(s.profitPercent)
            /\ isFinite(s.cagr.base) /\ isFinite(s.cagr.exponent)
            /\ s.sharpeRatio.value # "NaN"
            /\ isFinite(s.maxDrawdown)
            /\ s.volatility.variance \in {"0", "positive"}
            /\ isFinite(s.avgBuyPrice)
            /\ isFinite(s.bestMonth.return) /\ isFinite(s.worstMonth.return)

-----------------------------------------------------------------------------
(* Properties of the functions of utils/calculations *)

\* the Monday-to-Sunday week of a date (day number 0 is a Monday)
CalendarWeek(date) == DayNumber(date) \div 7

\* out holds, in ascending order, exactly the last point of in for every
\* period (given by periodOf) that has a point in in
LastPointPerPeriod(in, out, periodOf(_)) ==
    /\ \A i \in 1..(Len(out) - 1) : out[i].date < out[i + 1].date
    /\ \A i \in 1..Len(out), j \in 1..Len(out) :
          periodOf(out[i].date) = periodOf(out[j].date) => i = j
    /\ { out[i] : i \in 1..Len(out) }
         = { in[i] : i \in { k \in 1..Len(in) :
                 \A j \in (k + 1)..Len(in) :
                     periodOf(in[j].date) # periodOf(in[k].date) } }

\* C16: on an ascending daily series resampleToWeekly and resampleToMonthly
\* return an ascending series with exactly one point per Monday-to-Sunday week,
\* respectively per calendar month, that has an input day, each the last
\* input point of its period; an empty input gives an empty output.
C16_ResampleLastPointPerPeriod ==
    pc = "returned" =>
        /\ input.dailyPrices = <<>> => output = <<>>
        /\ input.fn = "resampleToWeekly" =>
               LastPointPerPeriod(input.dailyPrices, output, CalendarWeek)
        /\ input.fn = "resampleToMonthly" =>
               LastPointPerPeriod(input.dailyPrices, output, MonthKey)

-----------------------------------------------------------------------------
(* Properties of the portfolio import *)

\* data[k] is a market point nearest in time to `date`
NearestMarketPoint(k, date) ==
    \A j \in 1..Len(data) :
        Abs(DayNumber(data[k].date) - DayNumber(date))
            <= Abs(DayNumber(data[j].date) - DayNumber(date))

ImportedShape ==
    /\ Len(txs) = Len(portfolioTxs)
    /\ \A i \in 1..Len(txs) :
          /\ txs[i].date = portfolioTxs[i].date
          /\ txs[i].sharesBought = R(portfolioTxs[i].quantity)
          /\ txs[i].investedAmount = R(portfolioTxs[i].invested_amount)
          /\ txs[i].multiplierApplied = One
          /\ txs[i].reason = <<"Portfolio import">>

\* C17: in import mode the ledger has one transaction per imported entry in
\* the same order, with multiplierApplied = 1 and reason "Portfolio import",
\* and portfolioValue is the accumulated shares valued at the market price of
\* the entry's date or, without a market point on that date, at the price of
\* the nearest available market date.
C17_ImportValuedAtNearestPrice ==
    (LedgerBuilt /\ UsesImport /\ Len(data) > 0) =>
        /\ ImportedShape
        /\ \A i \in 1..Len(txs) :
              \E k \in 1..Len(data) :
                  /\ NearestMarketPoint(k, txs[i].date)
                  /\ txs[i].portfolioValue
                       = RMul(txs[i].accumulatedShares, R(data[k].price))

-----------------------------------------------------------------------------
(* Properties of the indicators *)

\* C18: calculateSMA(prices, period) has the length of prices; element i is
\* the mean of the trailing `period` values when i >= period - 1 and the mean
\* of elements 0..i otherwise; on a constant series it is that constant at
\* every index, for every period >= 1.
C18_SmaIsTrailingMean ==
    (pc = "returned" /\ input.fn = "calculateSMA") =>
        /\ Len(output) = Len(input.prices)
        /\ \A i \in 1..Len(output) :
              LET count == IF i >= input.period THEN input.period ELSE i
              IN  /\ isFinite(output[i])
                  /\ RMul(output[i], R(count))
                       = RSum(SubSeq(input.prices, i - count + 1, i))
        /\ (\A i \in 1..Len(input.prices) : input.prices[i] = input.prices[1])
              => \A i \in 1..Len(output) : output[i] = input.prices[1]

C18_Witness ==
    /\ pc = "returned" /\ input.fn = "calculateSMA"
    /\ input.period = 3 /\ Len(input.prices) = 4
    /\ input.prices[1] # input.prices[2]
    /\ output[2] # output[3] /\ output[3] # output[4]

\* the running peak of pv at point i: the largest value of points 1..i
RunningPeak(pv, i) ==
    CHOOSE p \in { pv[k].value : k \in 1..i } :
        \A k \in 1..i : RLe(pv[k].value, p)

\* the date the running peak of point i was first reached
RunningPeakDate(pv, i) ==
    pv[CHOOSE k \in 1..i :
           /\ pv[k].value = RunningPeak(pv, i)
           /\ \A j \in 1..(k - 1) : pv[j].value # RunningPeak(pv, i)].date

NonDecreasingValues(pv) ==
    \A i \in 1..(Len(pv) - 1) : RLe(pv[i].value, pv[i + 1].value)

DrawdownSeriesOfPeaks(pv, dd) ==
    /\ Len(dd) = Len(pv)
    /\ \A i \in 1..Len(pv) :
          /\ dd[i].date = pv[i].date
          /\ dd[i].drawdown
               = JsTimes(JsDiv(RSub(RunningPeak(pv, i), pv[i].value),
                               RunningPeak(pv, i)), R(100))

MaxOfSeries(pv, res) ==
    LET dd == res.drawdownSeries
    IN  \E t \in 1..Len(dd) :
            /\ dd[t].drawdown = res.maxDrawdown
            /\ \A i \in 1..Len(dd) :
                  ~JsGt(dd[i].drawdown, res.maxDrawdown)
            /\ \A i \in 1..(t - 1) : dd[i].drawdown # res.maxDrawdown
            /\ res.maxDrawdownTroughDate = pv[t].date
            /\ res.maxDrawdownPeakDate = RunningPeakDate(pv, t)

\* C19: calculateMaxDrawdown makes one forward pass with a running peak: one
\* entry (runningPeak - value) / runningPeak x 100 per point, maxDrawdown the
\* maximum of the series with the trough date where it is first reached and
\* the peak date of the running peak at that moment, currentDrawdown the last
\* entry; on a monotonically increasing series every drawdown, maxDrawdown
\* and currentDrawdown are 0.
C19_DrawdownForwardPass ==
    (pc = "returned" /\ input.fn = "calculateMaxDrawdown"
        /\ Len(input.portfolioValues) > 0) =>
        LET pv == input.portfolioValues
            dd == output.drawdownSeries
        IN  /\ DrawdownSeriesOfPeaks(pv, dd)
            /\ MaxOfSeries(pv, output)
            /\ output.currentDrawdown = dd[Len(dd)].drawdown
            /\ NonDecreasingValues(pv) =>
                   /\ \A i \in 1..Len(dd) : dd[i].drawdown = Zero
                   /\ output.maxDrawdown = Zero
                   /\ output.currentDrawdown = Zero

StrictlyIncreasing(prices) ==
    \A i \in 1..(Len(prices) - 1) : RLt(prices[i], prices[i + 1])

StrictlyDecreasing(prices) ==
    \A i \in 1..(Len(prices) - 1) : RLt(prices[i + 1], prices[i])

PastWarmup == (input.period + 1)..Len(output)

\* the distance of an RSI value to the level it is said to converge to
Distance(x, level) == IF RLt(x, level) THEN RSub(level, x) ELSE RSub(x, level)

\* from one point to the next the values come strictly closer to `level`,
\* unless they have reached it
ConvergesToward(level) ==
    \A i \in PastWarmup :
        /\ isFinite(output[i])
        /\ (i + 1) \in PastWarmup =>
              \/ output[i + 1] = level
              \/ RLt(Distance(output[i + 1], level), Distance(output[i], level))

RsiTrendCall ==
    /\ pc = "returned" /\ input.fn = "calculateRSI"
    /\ Len(input.prices) > input.period

\* C21 as stated: on a strictly increasing price series (longer than the
\* period) the RSI values after the warm-up converge toward 100, and on a
\* strictly decreasing series toward 0.
C21_RsiConvergesToExtremes ==
    RsiTrendCall =>
        /\ StrictlyIncreasing(input.prices) => ConvergesToward(R(100))
        /\ StrictlyDecreasing(input.prices) => ConvergesToward(Zero)

\* C21 amended: on a strictly increasing series every RSI value after the
\* warm-up is the saturation value 100 - 100 / 101 (rs = 100), and on a
\* strictly decreasing series every one is 0.
C21_RsiSaturatesOnTrends ==
    RsiTrendCall =>
        /\ StrictlyIncreasing(input.prices) =>
              \A i \in PastWarmup : output[i] = Norm(10000, 101)
        /\ StrictlyDecreasing(input.prices) =>
              \A i \in PastWarmup : output[i] = Zero

C21_Witness ==
    /\ RsiTrendCall
    /\ StrictlyIncreasing(input.prices)
    /\ Len(input.prices) = 4 /\ input.period = 2
    /\ output[3] = Norm(10000, 101) /\ output[4] = Norm(10000, 101)

CagrReturned == pc = "returned" /\ input.fn = "calculateCAGR"

\* the percentage a result of calculateCAGR stands for, where the power is
\* exact: Math.pow(x, 1) is x
Percent(c) ==
    IF c.value = "0" THEN Zero
    ELSE IF c.value = "-100" THEN R(-100)
    ELSE IF c.exponent = One THEN RMul(RSub(c.base, One), R(100))
    ELSE NaN

\* C22: calculateCAGR(start, end, years) is 0 whenever start <= 0 or
\* years <= 0, else -100 whenever end <= 0, else
\* ((end / start) ^ (1 / years) - 1) * 100; calculateCAGR(100, 200, 1) = 100
\* and calculateCAGR(100, 50, 1) = -50.
C22_CagrGuardsAndFormula ==
    CagrReturned =>
        /\ (RLe(input.startValue, Zero) \/ RLe(input.years, Zero)) =>
              (output.value = "0" /\ Percent(output) = Zero)
        /\ (RLt(Zero, input.startValue) /\ RLt(Zero, input.years)
              /\ RLe(input.endValue, Zero)) =>
              (output.value = "-100" /\ Percent(output) = R(-100))
        /\ (RLt(Zero, input.startValue) /\ RLt(Zero, input.years)
              /\ RLt(Zero, input.endValue)) =>
              /\ output.value = "pow"
              /\ RMul(output.base, input.startValue) = input.endValue
              /\ RMul(output.exponent, input.years) = One
        /\ (input.startValue = R(100) /\ input.endValue = R(200)
              /\ input.years = One) => Percent(output) = R(100)
        /\ (input.startValue = R(100) /\ input.endValue = R(50)
              /\ input.years = One) => Percent(output) = R(-50)

C22_Witness ==
    /\ CagrReturned
    /\ input.startValue = R(100) /\ input.endValue = R(50) /\ input.years = One
    /\ Percent(output) = R(-50)

InRateRange(rate) == RLe(Norm(-99, 100), rate) /\ RLe(rate, R(10))

MonthsOf(ledger) == { MonthKey(ledger[i].date) : i \in 1..Len(ledger) }

\* the portfolioValue of the last transaction of month m
LastValueOf(ledger, m) ==
    LET last == CHOOSE i \in 1..Len(ledger) :
                   /\ MonthKey(ledger[i].date) = m
                   /\ \A j \in (i + 1)..Len(ledger) : MonthKey(ledger[j].date) # m
    IN  ledger[last].portfolioValue

\* the value month m is compared with: the last value of the month before
\* it in the ledger (the first transaction's value for the first month)
BaseValueOf(ledger, m) ==
    LET earlier == { k \in MonthsOf(ledger) : k < m }
    IN  IF earlier = {} THEN ledger[1].portfolioValue
        ELSE LastValueOf(ledger, CHOOSE k \in earlier : \A e \in earlier : e <= k)

MonthReturn(ledger, m) ==
    JsTimes(JsDiv(RSub(LastValueOf(ledger, m), BaseValueOf(ledger, m)),
                  BaseValueOf(ledger, m)), R(100))

\* month m is the first month of the ledger whose return is the extreme one:
\* no month beats it and no earlier month equals it
FirstExtreme(ledger, m, beats(_, _)) ==
    /\ m \in MonthsOf(ledger)
    /\ isFinite(MonthReturn(ledger, m))
    /\ \A k \in MonthsOf(ledger) :
          /\ isFinite(MonthReturn(ledger, k))
          /\ ~beats(MonthReturn(ledger, k), MonthReturn(ledger, m))
          /\ k < m => MonthReturn(ledger, k) # MonthReturn(ledger, m)

JsLt(a, b) == JsGt(b, a)

\* C24: calculateBestWorstMonths groups the ledger by calendar month; a
\* month's return is the percentage change from the previous month's last
\* portfolioValue to this month's last; best is a month of maximal return and
\* worst one of minimal return, on ties the first one in ledger order.
C24_BestWorstFirstExtreme ==
    (pc = "returned" /\ input.fn = "calculateBestWorstMonths"
        /\ Len(input.transactions) >= 2) =>
        /\ FirstExtreme(input.transactions, output.best.date, JsGt)
        /\ output.best.return = MonthReturn(input.transactions, output.best.date)
        /\ FirstExtreme(input.transactions, output.worst.date, JsLt)
        /\ output.worst.return = MonthReturn(input.transactions, output.worst.date)

\* C25: every simulation run starts with totalShares, totalInvested,
\* budgetDebt and savedCash at zero, and a run on given inputs finalises the
\* same ledger whether it is the first run, follows any other run, or is
\* repeated.
C25_RunOwnsItsState ==
    /\ (pc = "loop" /\ idx = 1) =>
          /\ txs = <<>>
          /\ totalShares = Zero /\ totalInvested = Zero
          /\ budgetDebt = Zero /\ savedCash = Zero
    /\ (pc = "built" /\ firstRun # <<>> /\ firstRun[1] = inputs) =>
          txs = firstRun[2]

\* the first run's inputs are run again after a run on other inputs, whose
\* ledger is still displayed and which left debt behind
C25_Witness ==
    /\ pc = "built"
    /\ firstRun # <<>> /\ firstRun[1] = inputs
    /\ txs = firstRun[2]
    /\ transactions # <<>> /\ transactions # txs
    /\ RLt(Zero, budgetDebt)
    /\ \E i \in 1..Len(txs) : "debt" \in { txs[i].reason[j] : j \in 1..Len(txs[i].reason) }

OnlySmaVix == ~cfg.useDcaStrict /\ ~cfg.useSellInMay /\ ~cfg.useRsiRule

\* C26: with strict mode, Sell-in-May and the RSI rule disabled, after every
\* scheduled date the cumulative invested amount is (scheduled dates
\* processed) x baseAmount + budgetDebt, and a date that finds
\* budgetDebt >= baseAmount buys nothing.
C26_InvestedIsBudgetPlusDebt ==
    /\ []((Simulating /\ OnlySmaVix) =>
            totalInvested = RAdd(RMul(R(idx - 1), cfg.baseAmount), budgetDebt))
    /\ [][(InLoop /\ ~UsesImport /\ OnlySmaVix /\ RLe(cfg.baseAmount, budgetDebt)) =>
            /\ totalInvested' = totalInvested
            /\ totalShares' = totalShares
            /\ Len(txs') = Len(txs) + 1
            /\ txs'[Len(txs')].investedAmount = Zero
            /\ txs'[Len(txs')].sharesBought = Zero]_vars

\* a boosted purchase, then a date waived for the debt, and debt still owed
C26_Witness ==
    /\ pc = "done" /\ Simulating /\ OnlySmaVix
    /\ Len(txs) = 3
    /\ RLt(cfg.baseAmount, txs[2].investedAmount)
    /\ Has(txs[3], "debt") /\ txs[3].investedAmount = Zero
    /\ RLt(Zero, budgetDebt)
    /\ totalInvested = RAdd(RMul(R(3), cfg.baseAmount), budgetDebt)

\* C27: the Sell-in-May bonus is separate from budget debt: with Sell-in-May
\* as the only enabled rule budgetDebt stays 0 throughout the run and no
\* winter date's base contribution is waived.
C27_BonusIsNotDebt ==
    (Simulating /\ OnlySellInMay) =>
        /\ budgetDebt = Zero
        /\ \A i \in 1..Len(txs) : ~Has(txs[i], "debt")

OnlyRsi ==
    /\ cfg.useRsiRule /\ ~cfg.useDcaStrict /\ ~cfg.useSellInMay /\ ~cfg.useVixRule
    /\ ~cfg.useSma20Rule /\ ~cfg.useSma50Rule /\ ~cfg.useSmaRule /\ ~cfg.useSma200Rule

\* the date at hand reaches the RSI rule and deploys the saved cash
DeploysSavedCash ==
    /\ AtDebtStep /\ ~UsesImport /\ cfg.useRsiRule
    /\ RLt(Zero, RAdd(BaseHere, BonusHere))
    /\ pt.rsiWeekly # 0 /\ pt.rsiWeekly < 30 /\ RLt(Zero, savedCash)

\* transaction j is a zero-investment date waived for the debt
WaivedDate(j) == Has(txs[j], "debt") /\ txs[j].investedAmount = Zero

\* C28: a deployment of savedCash at an RSI < 30 date raises budgetDebt by
\* (baseAmount + savedCash) x multiplier - baseAmount; with the RSI rule as
\* the only rule a deployment of k x baseAmount is followed by k consecutive
\* debt-waived zero-investment dates; and cumulative invested - budgetDebt
\* never exceeds (dates processed) x baseAmount.
C28_DeploymentIsDebt ==
    /\ [][DeploysSavedCash =>
            LET tx == txs'[Len(txs')]
            IN  /\ Has(tx, "rsiDeploy")
                /\ RSub(budgetDebt', budgetDebt)
                     = RSub(RMul(RAdd(cfg.baseAmount, savedCash), tx.multiplierApplied),
                            cfg.baseAmount)]_vars
    /\ []((Simulating /\ OnlyRsi) =>
            \A i \in 1..Len(txs) :
                Has(txs[i], "rsiDeploy") =>
                    LET cash == RSub(txs[i].investedAmount, cfg.baseAmount)
                    IN  \A j \in (i + 1)..Len(txs) :
                            /\ RLe(RMul(R(j - i), cfg.baseAmount), cash) => WaivedDate(j)
                            /\ RMul(R(j - i - 1), cfg.baseAmount) = cash =>
                                  ~Has(txs[j], "debt"))
    /\ [](Simulating =>
            RLe(RSub(totalInvested, budgetDebt), RMul(R(idx - 1), cfg.baseAmount)))

\* the days fetched before startDate, which the market data leaves out
HistoryDays == Len(input.allPrices[1]) - Len(output[1])

\* the prices of the two tickers agree on the first n fetched days
AgreeUpTo(n) == \A i \in 1..n : input.allPrices[1][i] = input.allPrices[2][i]

\* the entries of a ledger dated `date` or earlier
OnOrBefore(ledger, date) == SelectSeq(ledger, LAMBDA tx : tx.date <= date)

\* C29: no look-ahead.  When two price series with the same dates agree on
\* every day up to and including a day, the market data of that day (moving
\* averages of the chosen indicator timeframe, weekly RSI, VIX) is the same
\* in both runs, and with the same configuration so is every ledger entry
\* dated that day or earlier.
C29_NoLookAhead ==
    Len(output) = 2 =>
        \A i \in 1..Len(output[1]) :
            AgreeUpTo(HistoryDays + i) =>
                /\ output[1][i] = output[2][i]
                /\ pc \in {"built", "done"} =>
                      OnOrBefore(txs, output[1][i].date)
                        = OnOrBefore(firstRun[2], output[1][i].date)

\* weekly indicators, the two series part on Friday 2023-04-21: Monday
\* 2023-04-17 carries a computed RSI and an average read from the previous
\* week, and both ledgers are built and differ after that Monday
C29_Witness ==
    /\ Len(output) = 2 /\ pc = "done"
    /\ input.indicatorTimeframe = "weekly"
    /\ \E i \in 1..(Len(output[1]) - 1) :
          /\ output[1][i].date = 20230417
          /\ AgreeUpTo(HistoryDays + i) /\ ~AgreeUpTo(HistoryDays + i + 1)
          /\ output[1][i].rsiWeekly # R(50)
          /\ output[1][i].sma20 # R(output[1][i].price)
          /\ output[1][i + 1] # output[2][i + 1]
          /\ OnOrBefore(txs, 20230417) # <<>>
    /\ txs # firstRun[2]

\* C30: two consecutive upstream CoinGecko fetches are started at least
\* COINGECKO_DELAY (1500 ms) apart, whatever the interleaving of the
\* concurrent requests that miss the cache.
C30_UpstreamSpacing ==
    \A i \in 1..(Len(upstream) - 1) :
        upstream[i + 1] - upstream[i] >= COINGECKO_DELAY

====
